---------------------------- MODULE Spec2Model ----------------------------
(***************************************************************************)
(* VibeAround web dashboard: the session streaming protocol and the        *)
(* client-side state machines of the terminal view (TerminalView.tsx) and  *)
(* of the chat view (ChatView.tsx, in its two revisions).                  *)
(*                                                                         *)
(* Strings are sequences of one-character strings, so that concatenation,  *)
(* trimming and emptiness are computed as JavaScript computes them.        *)
(* Optional values (a field that may be undefined) are <<>> for undefined  *)
(* and <<v>> for a value v.                                                *)
(***************************************************************************)
EXTENDS Integers, Sequences, FiniteSets, TLC

VARIABLES
    \* ---- chat view (React state and refs of ChatView) ----
    variant,        \* which revision of ChatView is mounted: "current" | "legacy"
    messages,       \* useState<ChatMessage[]>
    input,          \* useState: the text box
    connected,      \* useState
    streaming,      \* useState
    chatReady,      \* wsRef.current.readyState of the chat socket
    chatClosing,    \* the socket failed: its close event is still to be dispatched
    chatTx,         \* frames handed to ws.send, in order
    chatRx,         \* history: frames delivered to ws.onmessage, in order
    chatThrew,      \* history: ws.onmessage ended by an uncaught exception
    chatEv,         \* history: the handler that ran last: message, send or other
    runBase,        \* history: content of the trailing assistant turn when the
                    \*   current run of text appends began
    runFrags,       \* history: the fragments appended in the current run
    sends,          \* history: number of accepted sendMessage calls
    sentAfter       \* history: for each accepted send, the text box at the
                    \*   call and the number of frames delivered before it

VARIABLES
    \* ---- terminal view (refs and closure state of TerminalView) ----
    binaryType,     \* ws.binaryType: how the platform delivers a binary frame
    wsReady,        \* ws.readyState of the terminal socket
    wsClosing,      \* the socket failed: its close event is still to be dispatched
    dumpReceived,   \* let dumpReceived
    termLog,        \* the calls made on the emulator surface, in order
    pendingBlobs,   \* positions in termRx of the Blobs whose arrayBuffer() is pending
    box,            \* <<cols, rows>> that fit in the surface's current box
    termSize,       \* <<term.cols, term.rows>> of the Terminal of each run
                    \*   of initTerminal
    termTx,         \* frames handed to ws.send, in order
    termRx,         \* history: frames delivered to ws.onmessage, in order
    reported,       \* history: the calls of onSessionState, in order
    viewMode,       \* prop viewMode of the view: "tabs" | "grid"
    isActive,       \* prop isActive of the view
    activeTimer,    \* the setTimeout of the [isActive] effect is pending
    modeTimer,      \* the pending setTimeouts of the [viewMode] effect, each
                    \* named by the viewMode of the effect run that set it
    observerPending,\* the box changed: the ResizeObserver callback is due
    produced        \* history: the data term.onData produced, each with
                    \*   whether the socket was open then

chatVars == <<variant, messages, input, connected, streaming, chatReady,
              chatClosing, chatTx, chatRx, chatThrew, chatEv, runBase,
              runFrags, sends, sentAfter>>

\* the props and timers of the geometry effects
geomVars == <<viewMode, isActive, activeTimer, modeTimer, observerPending>>

termVars == <<binaryType, wsReady, wsClosing, dumpReceived, termLog,
              pendingBlobs, box, termSize, termTx, termRx, reported,
              geomVars, produced>>

VARIABLES
    \* ---- session registry (state of App) and the sessions API ----
    page,             \* useState<AppPage>: "terminal" | "chat"
    sessions,         \* the sessions of the default group of `groups`
    activeTabId,      \* useState: a session id, or Null
    maximizedSession, \* useState: a session id, or Null
    sessionsLoading,  \* useState
    backend,          \* the session list the backend holds
    requests,         \* the API calls in flight
    createdHere,      \* history: ids of the sessions added by handleAddCli
    hadPanel,         \* history: ids of the sessions whose TerminalView has
                      \*   been mounted; a channel made for such a view can
                      \*   be open
    viewTimers,       \* the mounted TerminalViews whose [viewMode] timer is
                      \*   pending, in the order the timers were set; a
                      \*   view is named by the key of its panel
    unhandled,        \* the error of an API call has left its handler
                      \*   (no catch took it)
    events            \* the user actions and channel notifications handled

appVars == <<page, sessions, activeTabId, maximizedSession, sessionsLoading,
             backend, requests, createdHere, hadPanel, viewTimers,
             unhandled, events>>

VARIABLES
    \* ---- the life cycle of one TerminalView ----
    mounted,          \* the effects of the view are in place
    initializedRef,   \* initializedRef.current
    fitAddonRef,      \* fitAddonRef.current: the run of initTerminal that
                      \*   made it, or Null
    termRef,          \* termRef.current, likewise
    wsRef,            \* wsRef.current, likewise
    cleanupRef,       \* cleanupRef.current, likewise
    inits,            \* the runs of initTerminal, each with its surface and
                      \*   its channel
    started,          \* number of runs of initTerminal that were started
    misuse,           \* history: fits and writes made on a disposed surface
    sessionProp,      \* prop session.id of the view; onSessionStateRef.current
                      \*   is the callback App made for this session
    stateCall         \* history: the last call of onSessionStateRef.current,
                      \*   with the session of the channel it came from

reuseVars == <<sessionProp, stateCall>>

lifeVars == <<mounted, initializedRef, fitAddonRef, termRef, wsRef,
              cleanupRef, inits, started, misuse, reuseVars>>

vars == <<chatVars, termVars, appVars, lifeVars>>

-----------------------------------------------------------------------------
(* Bounds of the model *)

\* inbound frames delivered to one chat channel
MaxChatFrames == 3
\* accepted sendMessage calls on one chat channel
MaxSends == 1
\* inbound frames delivered to one terminal channel
MaxTermFrames == 3
\* frames sent on one terminal channel
MaxTermTx == 2
\* turns of the transcript a prompt is built from
MaxPriorTurns == 22
\* data the emulator produces on a terminal view
MaxKeys == 3
\* user actions and channel notifications the registry handles
MaxEvents == 3
\* runs of initTerminal on one view
MaxInits == 2

-----------------------------------------------------------------------------
(* JavaScript values *)

Undefined == <<>>
Some(v) == <<v>>

\* String.prototype.trim's white space, as far as the inputs use it
WhiteSpace == {" ", "\n", "\t", "\r"}

RECURSIVE TrimStart(_)
TrimStart(s) ==
    IF s # <<>> /\ Head(s) \in WhiteSpace THEN TrimStart(Tail(s)) ELSE s

RECURSIVE TrimEnd(_)
TrimEnd(s) ==
    IF s # <<>> /\ s[Len(s)] \in WhiteSpace
    THEN TrimEnd(SubSeq(s, 1, Len(s) - 1))
    ELSE s

\* String.prototype.trim
Trim(s) == TrimEnd(TrimStart(s))

\* Array.prototype.slice(-n), n > 0
SliceLast(a, n) ==
    IF Len(a) <= n THEN a ELSE SubSeq(a, Len(a) - n + 1, Len(a))

\* Array.prototype.join(sep) on an array of strings
RECURSIVE Join(_, _)
Join(lines, sep) ==
    IF lines = <<>> THEN <<>>
    ELSE IF Len(lines) = 1 THEN lines[1]
    ELSE lines[1] \o sep \o Join(Tail(lines), sep)

\* A value read from a parsed JSON object: typeof and the string it holds
JsUndefined == [ty |-> "undefined", s |-> <<>>]
JsNull == [ty |-> "null", s |-> <<>>]
JsTrue == [ty |-> "true", s |-> <<>>]
JsFalse == [ty |-> "false", s |-> <<>>]
JsObject == [ty |-> "object", s |-> <<>>]
JsString(s) == [ty |-> "string", s |-> s]
JsNumber(digits) == [ty |-> "number", s |-> digits]

-----------------------------------------------------------------------------
(* The chat wire: JSON.parse on the text frames the model delivers *)

\* The result of JSON.parse(raw): root is "invalid" when it throws, and else
\* the kind of value parsed; the four fields are j.done, j.error, j.progress
\* and j.text as property reads of that value would give them.
ChatParsed(raw, root, done, error, progress, text) ==
    [raw |-> raw, root |-> root, done |-> done, error |-> error,
     progress |-> progress, text |-> text]

\* The frames of the documented wire format, and a legacy raw text chunk
ChatWireCore ==
  {
    \* Hi
    ChatParsed(<<"H", "i">>,
        "invalid", JsUndefined, JsUndefined, JsUndefined, JsUndefined),
    \* {"text":"Hi"}
    ChatParsed(<<"{", "\"", "t", "e", "x", "t", "\"", ":", "\"", "H", "i", "\"", "}">>,
        "object", JsUndefined, JsUndefined, JsUndefined, JsString(<<"H", "i">>)),
    \* {"text":""}
    ChatParsed(<<"{", "\"", "t", "e", "x", "t", "\"", ":", "\"", "\"", "}">>,
        "object", JsUndefined, JsUndefined, JsUndefined, JsString(<<>>)),
    \* {"progress":"Thinking..."}
    ChatParsed(<<"{", "\"", "p", "r", "o", "g", "r", "e", "s", "s", "\"", ":", "\"", "T", "h", "i", "n", "k", "i", "n", "g", ".", ".", ".", "\"", "}">>,
        "object", JsUndefined, JsUndefined, JsString(<<"T", "h", "i", "n", "k", "i", "n", "g", ".", ".", ".">>), JsUndefined),
    \* {"done":true}
    ChatParsed(<<"{", "\"", "d", "o", "n", "e", "\"", ":", "t", "r", "u", "e", "}">>,
        "object", JsTrue, JsUndefined, JsUndefined, JsUndefined),
    \* {"error":"timeout"}
    ChatParsed(<<"{", "\"", "e", "r", "r", "o", "r", "\"", ":", "\"", "t", "i", "m", "e", "o", "u", "t", "\"", "}">>,
        "object", JsUndefined, JsString(<<"t", "i", "m", "e", "o", "u", "t">>), JsUndefined, JsUndefined)
  }

\* Frames outside the documented shapes, or carrying several of them
ChatWireOdd ==
  {
    \* {"progress":""}
    ChatParsed(<<"{", "\"", "p", "r", "o", "g", "r", "e", "s", "s", "\"", ":", "\"", "\"", "}">>,
        "object", JsUndefined, JsUndefined, JsString(<<>>), JsUndefined),
    \* {"job_id":"j1","preview":"p"}
    ChatParsed(<<"{", "\"", "j", "o", "b", "_", "i", "d", "\"", ":", "\"", "j", "1", "\"", ",", "\"", "p", "r", "e", "v", "i", "e", "w", "\"", ":", "\"", "p", "\"", "}">>,
        "object", JsUndefined, JsUndefined, JsUndefined, JsUndefined),
    \* null
    ChatParsed(<<"n", "u", "l", "l">>,
        "null", JsUndefined, JsUndefined, JsUndefined, JsUndefined),
    \* 42
    ChatParsed(<<"4", "2">>,
        "number", JsUndefined, JsUndefined, JsUndefined, JsUndefined),
    \* {"progress":"P","text":"Hi"}
    ChatParsed(<<"{", "\"", "p", "r", "o", "g", "r", "e", "s", "s", "\"", ":", "\"", "P", "\"", ",", "\"", "t", "e", "x", "t", "\"", ":", "\"", "H", "i", "\"", "}">>,
        "object", JsUndefined, JsUndefined, JsString(<<"P">>), JsString(<<"H", "i">>)),
    \* {"done":true,"text":"Hi"}
    ChatParsed(<<"{", "\"", "d", "o", "n", "e", "\"", ":", "t", "r", "u", "e", ",", "\"", "t", "e", "x", "t", "\"", ":", "\"", "H", "i", "\"", "}">>,
        "object", JsTrue, JsUndefined, JsUndefined, JsString(<<"H", "i">>))
  }

\* Objects that carry an error field next to another recognised field
ChatWireMulti ==
  {
    \* {"done":true,"error":"timeout"}
    ChatParsed(<<"{", "\"", "d", "o", "n", "e", "\"", ":", "t", "r", "u", "e", ",", "\"", "e", "r", "r", "o", "r", "\"", ":", "\"", "t", "i", "m", "e", "o", "u", "t", "\"", "}">>,
        "object", JsTrue, JsString(<<"t", "i", "m", "e", "o", "u", "t">>), JsUndefined, JsUndefined),
    \* {"error":"timeout","progress":"P"}
    ChatParsed(<<"{", "\"", "e", "r", "r", "o", "r", "\"", ":", "\"", "t", "i", "m", "e", "o", "u", "t", "\"", ",", "\"", "p", "r", "o", "g", "r", "e", "s", "s", "\"", ":", "\"", "P", "\"", "}">>,
        "object", JsUndefined, JsString(<<"t", "i", "m", "e", "o", "u", "t">>), JsString(<<"P">>), JsUndefined)
  }

ChatWireTable == ChatWireCore \cup ChatWireOdd \cup ChatWireMulti

\* JSON.parse(s)
JSONparse(s) == CHOOSE e \in ChatWireTable : e.raw = s

\* event.data of a message event: a string, or a binary payload
StringFrame(s) == [isString |-> TRUE, data |-> s]
BinaryFrame == [isString |-> FALSE, data |-> <<>>]

\* The frames delivered in the specifications of the documented protocol
ChatFrames == {StringFrame(e.raw) : e \in ChatWireCore}

\* the recognised fields an object carries
RecognisedFields(e) ==
    {k \in {"done", "error", "progress", "text"} :
        CASE k = "done" -> e.done.ty = "true"
          [] k = "error" -> e.error.ty = "string"
          [] k = "progress" -> e.progress.ty = "string"
          [] k = "text" -> e.text.ty = "string"}

\* The frames that carry more than one recognised field
MultiChatFrames ==
    {StringFrame(e.raw) :
        e \in {x \in ChatWireTable : Cardinality(RecognisedFields(x)) > 1}}

\* The frames delivered in the specifications of the undocumented shapes
OddChatFrames == {StringFrame(e.raw) : e \in ChatWireOdd} \cup {BinaryFrame}

-----------------------------------------------------------------------------
(* ChatView: the transcript reducers *)

CONTEXT_MESSAGE_LIMIT == 20

ChatMessage(role, content, progress) ==
    [role |-> role, content |-> content, progress |-> progress]

\* the test of the last turn that never finds an assistant turn
LastIsAssistant_Never(prev) == FALSE

\* `last?.role === "assistant"`
LastIsAssistant(prev) ==
    Len(prev) > 0 /\ prev[Len(prev)].role = "assistant"

\* JavaScript truthiness of an optional string
Truthy(opt) == opt # Undefined /\ opt[1] # <<>>

S_UserLabel == <<"U", "s", "e", "r", ":", " ">>
S_AssistantLabel == <<"A", "s", "s", "i", "s", "t", "a", "n", "t", ":", " ">>
S_PreviousConversation ==
    <<"P", "r", "e", "v", "i", "o", "u", "s", " ", "c", "o", "n", "v", "e",
      "r", "s", "a", "t", "i", "o", "n", ":", "\n", "\n">>
S_BlankLine == <<"\n", "\n">>
S_ErrorPrefix == <<"E", "r", "r", "o", "r", ":", " ">>

\* recent.map((m) => ...): one line per turn, its role label first
PromptLine(m) ==
    IF m.role = "user" THEN S_UserLabel \o m.content
    ELSE S_AssistantLabel \o m.content

\* buildPromptWithContext with slice(0, LIMIT) in place of slice(-LIMIT)
buildPromptWithContext_FirstTurns(msgs, newUserMessage) ==
    IF Len(msgs) = 0 THEN newUserMessage
    ELSE LET recent == SubSeq(msgs, 1, IF Len(msgs) < CONTEXT_MESSAGE_LIMIT
                                       THEN Len(msgs)
                                       ELSE CONTEXT_MESSAGE_LIMIT)
             lines == [i \in 1..Len(recent) |-> PromptLine(recent[i])]
         IN  S_PreviousConversation \o Join(lines, S_BlankLine)
                 \o S_BlankLine \o S_UserLabel \o newUserMessage

buildPromptWithContext(msgs, newUserMessage) ==
    IF Len(msgs) = 0 THEN newUserMessage
    ELSE LET recent == SliceLast(msgs, CONTEXT_MESSAGE_LIMIT)
             lines == [i \in 1..Len(recent) |-> PromptLine(recent[i])]
         IN  S_PreviousConversation \o Join(lines, S_BlankLine)
                 \o S_BlankLine \o S_UserLabel \o newUserMessage

\* appendToAssistant with `content: text` in place of `last.content + text`
appendToAssistant_Overwrite(prev, text) ==
    IF text = <<>> THEN prev
    ELSE IF Len(prev) = 0
    THEN <<ChatMessage("assistant", text, Undefined)>>
    ELSE LET last == prev[Len(prev)] IN
         IF last.role # "assistant"
         THEN Append(prev, ChatMessage("assistant", text, Undefined))
         ELSE [prev EXCEPT ![Len(prev)] =
                  [last EXCEPT !.content = text, !.progress = Undefined]]

\* appendToAssistant's state update (current revision)
appendToAssistant(prev, text) ==
    IF text = <<>> THEN prev
    ELSE IF Len(prev) = 0
    THEN <<ChatMessage("assistant", text, Undefined)>>
    ELSE LET last == prev[Len(prev)] IN
         IF last.role # "assistant"
         THEN Append(prev, ChatMessage("assistant", text, Undefined))
         ELSE [prev EXCEPT ![Len(prev)] =
                  [last EXCEPT !.content = last.content \o text,
                               !.progress = Undefined]]

\* the {"done":true} branch's state update (current revision)
doneBranch(prev) ==
    IF LastIsAssistant(prev) /\ Truthy(prev[Len(prev)].progress)
    THEN [prev EXCEPT ![Len(prev)].progress = Undefined]
    ELSE prev

\* errorBranch with the blank line added whether or not the turn has content
errorBranch_AlwaysBlankLine(prev, msg) ==
    IF LastIsAssistant(prev)
    THEN LET last == prev[Len(prev)] IN
         [prev EXCEPT ![Len(prev)] =
             [last EXCEPT
                !.content = last.content \o S_BlankLine \o S_ErrorPrefix \o msg,
                !.progress = Undefined]]
    ELSE Append(prev, ChatMessage("assistant", S_ErrorPrefix \o msg, Undefined))

\* the {"error": "..."} branch's state update (both revisions; the legacy
\* turn has no progress field, and keeps its progress undefined)
errorBranch(prev, msg) ==
    IF LastIsAssistant(prev)
    THEN LET last == prev[Len(prev)] IN
         [prev EXCEPT ![Len(prev)] =
             [last EXCEPT
                !.content = last.content
                    \o (IF last.content # <<>> THEN S_BlankLine ELSE <<>>)
                    \o S_ErrorPrefix \o msg,
                !.progress = Undefined]]
    ELSE Append(prev, ChatMessage("assistant", S_ErrorPrefix \o msg, Undefined))

\* the {"progress": "..."} branch's state update (current revision)
progressBranch(prev, label) ==
    IF LastIsAssistant(prev)
    THEN [prev EXCEPT ![Len(prev)].progress = Some(label)]
    ELSE prev

\* the trailing setMessages of the legacy ws.onmessage: the frame's text is
\* appended as it came
legacyAppend(prev, s) ==
    IF Len(prev) = 0
    THEN <<ChatMessage("assistant", s, Undefined)>>
    ELSE LET last == prev[Len(prev)] IN
         IF last.role # "assistant"
         THEN Append(prev, ChatMessage("assistant", s, Undefined))
         ELSE [prev EXCEPT ![Len(prev)].content = last.content \o s]

\* ChatBranch testing the fields in the order text, progress, error, done
ChatBranch_TextFirst(f) ==
    IF ~f.isString THEN "binary"
    ELSE LET j == JSONparse(f.data) IN
         IF j.root = "invalid" THEN "raw"
         ELSE IF j.root = "null" THEN "throw"
         ELSE IF j.text.ty = "string" THEN "text"
         ELSE IF j.progress.ty = "string" THEN "progress"
         ELSE IF j.error.ty = "string" THEN "error"
         ELSE IF j.done.ty = "true" THEN "done"
         ELSE "ignored"

\* Which branch of the current ws.onmessage a frame takes
ChatBranch(f) ==
    IF ~f.isString THEN "binary"
    ELSE LET j == JSONparse(f.data) IN
         IF j.root = "invalid" THEN "raw"
         ELSE IF j.root = "null" THEN "throw"     \* j.done on null: TypeError
         ELSE IF j.done.ty = "true" THEN "done"
         ELSE IF j.error.ty = "string" THEN "error"
         ELSE IF j.progress.ty = "string" THEN "progress"
         ELSE IF j.text.ty = "string" THEN "text"
         ELSE "ignored"

\* Which branch of the legacy ws.onmessage a frame takes (j?.done, j?.error
\* inside the try; everything else falls through to the append)
LegacyBranch(f) ==
    IF ~f.isString THEN "binary"
    ELSE LET j == JSONparse(f.data) IN
         IF j.root = "invalid" THEN "append"
         ELSE IF j.done.ty = "true" THEN "done"
         ELSE IF j.error.ty = "string" THEN "error"
         ELSE "append"

\* messages after ws.onmessage (current revision)
OnMessageMessages(prev, f) ==
    LET b == ChatBranch(f)
        j == JSONparse(f.data)
    IN  CASE b = "raw" -> appendToAssistant(prev, f.data)
          [] b = "done" -> doneBranch(prev)
          [] b = "error" -> errorBranch(prev, j.error.s)
          [] b = "progress" -> progressBranch(prev, j.progress.s)
          [] b = "text" -> appendToAssistant(prev, j.text.s)
          [] OTHER -> prev

\* streaming after ws.onmessage (both revisions)
OnMessageStreaming(st, branch) ==
    IF branch \in {"done", "error"} THEN FALSE ELSE st

\* messages after ws.onmessage (legacy revision)
LegacyOnMessageMessages(prev, f) ==
    LET b == LegacyBranch(f)
        j == JSONparse(f.data)
    IN  CASE b = "append" -> legacyAppend(prev, f.data)
          [] b = "error" -> errorBranch(prev, j.error.s)
          [] OTHER -> prev

-----------------------------------------------------------------------------
(* ChatView: handlers *)

S_hello == <<"h", "e", "l", "l", "o">>

\* What the user may have typed into the text box
ChatInputs == {<<>>, <<" ">>, S_hello, <<" ", "h", "i", "\n">>}

ChatEvent(h, accepted) == [h |-> h, accepted |-> accepted]

\* content of the trailing assistant turn, "" when there is none
TrailingContent(msgs) ==
    IF LastIsAssistant(msgs) THEN msgs[Len(msgs)].content ELSE <<>>

\* useState initial values and the mount effect: new WebSocket(...)
InitChat(v) ==
    /\ variant = v
    /\ messages = <<>>
    /\ input = <<>>
    /\ connected = FALSE
    /\ streaming = FALSE
    /\ chatReady = "CONNECTING"
    /\ chatClosing = FALSE
    /\ chatTx = <<>>
    /\ chatRx = <<>>
    /\ chatThrew = FALSE
    /\ chatEv = ChatEvent("other", FALSE)
    /\ runBase = <<>>
    /\ runFrags = <<>>
    /\ sends = 0
    /\ sentAfter = <<>>

\* ChatInput's onChange={setInput}
SetInput(v) ==
    /\ input # v
    /\ input' = v
    /\ chatEv' = ChatEvent("other", FALSE)
    /\ UNCHANGED <<variant, messages, connected, streaming, chatReady,
                   chatClosing, chatTx, chatRx, chatThrew, runBase, runFrags,
                   sends, sentAfter>>
    /\ UNCHANGED <<termVars, appVars, lifeVars>>

\* ws.onopen
ChatWsOpen ==
    /\ chatReady = "CONNECTING"
    /\ chatReady' = "OPEN"
    /\ connected' = TRUE
    /\ chatEv' = ChatEvent("other", FALSE)
    /\ UNCHANGED <<variant, messages, input, streaming, chatClosing, chatTx,
                   chatRx, chatThrew, runBase, runFrags, sends, sentAfter>>
    /\ UNCHANGED <<termVars, appVars, lifeVars>>

\* ws.onerror: the connection failed; the socket is CLOSED when the event is
\* dispatched and its close event follows
ChatWsError ==
    /\ chatReady \in {"CONNECTING", "OPEN"}
    /\ chatReady' = "CLOSED"
    /\ chatClosing' = TRUE
    /\ connected' = FALSE
    /\ chatEv' = ChatEvent("other", FALSE)
    /\ UNCHANGED <<variant, messages, input, streaming, chatTx, chatRx,
                   chatThrew, runBase, runFrags, sends, sentAfter>>
    /\ UNCHANGED <<termVars, appVars, lifeVars>>

\* ws.onclose that leaves the streaming flag
ChatWsClose_KeepStreaming ==
    /\ chatReady = "OPEN" \/ chatClosing
    /\ chatReady' = "CLOSED"
    /\ chatClosing' = FALSE
    /\ connected' = FALSE
    /\ chatEv' = ChatEvent("other", FALSE)
    /\ UNCHANGED <<variant, messages, input, streaming, chatTx, chatRx,
                   chatThrew, runBase, runFrags, sends, sentAfter>>
    /\ UNCHANGED <<termVars, appVars, lifeVars>>

\* ws.onclose
ChatWsClose ==
    /\ chatReady = "OPEN" \/ chatClosing
    /\ chatReady' = "CLOSED"
    /\ chatClosing' = FALSE
    /\ connected' = FALSE
    /\ streaming' = FALSE
    /\ chatEv' = ChatEvent("other", FALSE)
    /\ UNCHANGED <<variant, messages, input, chatTx, chatRx, chatThrew,
                   runBase, runFrags, sends, sentAfter>>
    /\ UNCHANGED <<termVars, appVars, lifeVars>>

\* ws.onmessage of the current revision, on frame f
ChatWsMessage(f) ==
    LET b == ChatBranch(f)
        frag == IF b = "raw" THEN f.data ELSE JSONparse(f.data).text.s
    IN
    /\ variant = "current"
    /\ chatReady = "OPEN"
    /\ Len(chatRx) < MaxChatFrames
    /\ messages' = OnMessageMessages(messages, f)
    /\ streaming' = OnMessageStreaming(streaming, b)
    /\ chatThrew' = (chatThrew \/ b = "throw")
    /\ chatRx' = Append(chatRx, f)
    /\ chatEv' = ChatEvent("message", FALSE)
    /\ IF b \in {"raw", "text"}
       THEN IF LastIsAssistant(messages)
            THEN /\ runFrags' = Append(runFrags, frag)
                 /\ UNCHANGED runBase
            ELSE /\ runFrags' = <<frag>>
                 /\ runBase' = <<>>
       ELSE /\ runFrags' = <<>>
            /\ runBase' = TrailingContent(messages')
    /\ UNCHANGED <<variant, input, connected, chatReady, chatClosing, chatTx,
                   sends, sentAfter>>
    /\ UNCHANGED <<termVars, appVars, lifeVars>>

\* ws.onmessage of the legacy revision, on frame f
LegacyWsMessage(f) ==
    LET b == LegacyBranch(f) IN
    /\ variant = "legacy"
    /\ chatReady = "OPEN"
    /\ Len(chatRx) < MaxChatFrames
    /\ messages' = LegacyOnMessageMessages(messages, f)
    /\ streaming' = OnMessageStreaming(streaming, b)
    /\ chatRx' = Append(chatRx, f)
    /\ chatEv' = ChatEvent("message", FALSE)
    /\ runFrags' = <<>>
    /\ runBase' = TrailingContent(messages')
    /\ UNCHANGED <<variant, input, connected, chatReady, chatClosing, chatTx,
                   chatThrew, sends, sentAfter>>
    /\ UNCHANGED <<termVars, appVars, lifeVars>>

\* SendRejected with `!input` in place of `!input.trim()`
SendRejected_NoTrim(inp, ready) == inp = <<>> \/ ready # "OPEN"

Sent(inp, n) == [input |-> inp, after |-> n]

\* the guard of sendMessage, on the text box and the socket's readyState:
\* `!input.trim() || !wsRef.current || readyState !== WebSocket.OPEN`
SendRejected(inp, ready) == Trim(inp) = <<>> \/ ready # "OPEN"

\* sendMessage putting the text box into the transcript as it is
sendMessage_RawInput ==
    /\ sends < MaxSends
    /\ chatEv' = ChatEvent("send", ~SendRejected(input, chatReady))
    /\ IF SendRejected(input, chatReady)
       THEN UNCHANGED <<messages, input, streaming, chatTx, runBase, runFrags,
                        sends, sentAfter>>
       ELSE /\ chatTx' = Append(chatTx,
                               buildPromptWithContext(messages, Trim(input)))
            /\ input' = <<>>
            /\ messages' = messages \o <<ChatMessage("user", input, Undefined),
                                         ChatMessage("assistant", <<>>, Undefined)>>
            /\ streaming' = TRUE
            /\ runBase' = <<>>
            /\ runFrags' = <<>>
            /\ sends' = sends + 1
            /\ sentAfter' = Append(sentAfter, Sent(input, Len(chatRx)))
    /\ UNCHANGED <<variant, connected, chatReady, chatClosing, chatRx,
                   chatThrew>>
    /\ UNCHANGED <<termVars, appVars, lifeVars>>

\* sendMessage (both revisions)
sendMessage ==
    LET text == Trim(input) IN
    /\ sends < MaxSends
    /\ chatEv' = ChatEvent("send", ~SendRejected(input, chatReady))
    /\ IF SendRejected(input, chatReady)
       THEN UNCHANGED <<messages, input, streaming, chatTx, runBase, runFrags,
                        sends, sentAfter>>
       ELSE /\ chatTx' = Append(chatTx, buildPromptWithContext(messages, text))
            /\ input' = <<>>
            /\ messages' = messages \o <<ChatMessage("user", text, Undefined),
                                         ChatMessage("assistant", <<>>, Undefined)>>
            /\ streaming' = TRUE
            /\ runBase' = <<>>
            /\ runFrags' = <<>>
            /\ sends' = sends + 1
            /\ sentAfter' = Append(sentAfter, Sent(input, Len(chatRx)))
    /\ UNCHANGED <<variant, connected, chatReady, chatClosing, chatRx,
                   chatThrew>>
    /\ UNCHANGED <<termVars, appVars, lifeVars>>

-----------------------------------------------------------------------------
(* The terminal wire: JSON.parse on the text frames the model delivers *)

\* The result of JSON.parse(raw) read as a SessionStateMessage: msg.type,
\* msg.tool and msg.exit_code
TermParsed(raw, root, type, tool, exit_code) ==
    [raw |-> raw, root |-> root, type |-> type, tool |-> tool,
     exit_code |-> exit_code]

\* A legacy raw text chunk and the state notifications of the backend
TermWireCore ==
  {
    \* ok
    TermParsed(<<"o", "k">>,
        "invalid", JsUndefined, JsUndefined, JsUndefined),
    \* {"type":"running","tool":"claude"}
    TermParsed(<<"{", "\"", "t", "y", "p", "e", "\"", ":", "\"", "r", "u", "n", "n", "i", "n", "g", "\"", ",", "\"", "t", "o", "o", "l", "\"", ":", "\"", "c", "l", "a", "u", "d", "e", "\"", "}">>,
        "object", JsString(<<"r", "u", "n", "n", "i", "n", "g">>), JsString(<<"c", "l", "a", "u", "d", "e">>), JsUndefined),
    \* {"type":"exited","tool":"generic","exit_code":0}
    TermParsed(<<"{", "\"", "t", "y", "p", "e", "\"", ":", "\"", "e", "x", "i", "t", "e", "d", "\"", ",", "\"", "t", "o", "o", "l", "\"", ":", "\"", "g", "e", "n", "e", "r", "i", "c", "\"", ",", "\"", "e", "x", "i", "t", "_", "c", "o", "d", "e", "\"", ":", "0", "}">>,
        "object", JsString(<<"e", "x", "i", "t", "e", "d">>), JsString(<<"g", "e", "n", "e", "r", "i", "c">>), JsNumber(<<"0">>)),
    \* {"type":"exited","tool":"codex","exit_code":1}
    TermParsed(<<"{", "\"", "t", "y", "p", "e", "\"", ":", "\"", "e", "x", "i", "t", "e", "d", "\"", ",", "\"", "t", "o", "o", "l", "\"", ":", "\"", "c", "o", "d", "e", "x", "\"", ",", "\"", "e", "x", "i", "t", "_", "c", "o", "d", "e", "\"", ":", "1", "}">>,
        "object", JsString(<<"e", "x", "i", "t", "e", "d">>), JsString(<<"c", "o", "d", "e", "x">>), JsNumber(<<"1">>)),
    \* {"type":"exited","tool":"gemini"}
    TermParsed(<<"{", "\"", "t", "y", "p", "e", "\"", ":", "\"", "e", "x", "i", "t", "e", "d", "\"", ",", "\"", "t", "o", "o", "l", "\"", ":", "\"", "g", "e", "m", "i", "n", "i", "\"", "}">>,
        "object", JsString(<<"e", "x", "i", "t", "e", "d">>), JsString(<<"g", "e", "m", "i", "n", "i">>), JsUndefined)
  }

\* Text frames that are JSON but no well-formed state notification
TermWireOdd ==
  {
    \* {"type":"running"}
    TermParsed(<<"{", "\"", "t", "y", "p", "e", "\"", ":", "\"", "r", "u", "n", "n", "i", "n", "g", "\"", "}">>,
        "object", JsString(<<"r", "u", "n", "n", "i", "n", "g">>), JsUndefined, JsUndefined),
    \* {"type":"other"}
    TermParsed(<<"{", "\"", "t", "y", "p", "e", "\"", ":", "\"", "o", "t", "h", "e", "r", "\"", "}">>,
        "object", JsString(<<"o", "t", "h", "e", "r">>), JsUndefined, JsUndefined),
    \* null
    TermParsed(<<"n", "u", "l", "l">>,
        "null", JsUndefined, JsUndefined, JsUndefined),
    \* 42
    TermParsed(<<"4", "2">>,
        "number", JsUndefined, JsUndefined, JsUndefined)
  }

TermWireTable == TermWireCore \cup TermWireOdd

\* JSON.parse(data) as SessionStateMessage
ParseSessionState(s) == CHOOSE e \in TermWireTable : e.raw = s

\* The byte payloads of the binary frames: "HI" and "!"
Payloads == {<<72, 73>>, <<33>>}

\* event.data: the bytes of a binary frame, or the text of a text frame
BinaryData(bytes) == [kind |-> "binary", bytes |-> bytes, data |-> <<>>]
StringData(s) == [kind |-> "string", bytes |-> <<>>, data |-> s]

\* The frames delivered in the specifications of the documented protocol
TermFrames ==
    {BinaryData(b) : b \in Payloads}
        \cup {StringData(e.raw) : e \in TermWireCore}

\* The frames delivered in the specifications of the undocumented shapes
OddTermFrames ==
    {BinaryData(b) : b \in Payloads}
        \cup {StringData(e.raw) : e \in TermWireOdd}

-----------------------------------------------------------------------------
(* TerminalView: the emulator surface and the channel *)

\* The character a byte of the payloads decodes to (UTF-8, one-byte range)
ByteChar(b) ==
    CASE b = 33 -> "!"
      [] b = 72 -> "H"
      [] b = 73 -> "I"
      [] OTHER -> "?"

\* term.write(bytes): the text the emulator decodes from a Uint8Array
Utf8Decode(bytes) == [i \in 1..Len(bytes) |-> ByteChar(bytes[i])]

\* The calls on the emulator surface; src is the position in termRx of the
\* frame a write came from, 0 for the view's own notices
TermOp(op, data, src) == [op |-> op, data |-> data, src |-> src]

N_Connecting == <<"VibeAround Web Dashboard - connecting...">>
N_Connected == <<"\r\nConnected. Receiving history...\r\n">>
N_Closed == <<"\r\n\r\n[Connection closed. Refresh to reconnect.]">>
N_Error == <<"\r\n\r\n[WebSocket error. Is the app running?]">>

\* ResetOnceAndWrite resetting before every write
ResetOnceAndWrite_EveryTime(log, dump, text, src) ==
    log \o <<TermOp("reset", <<>>, src), TermOp("write", text, src)>>

\* `if (!dumpReceived) { term.reset(); dumpReceived = true; } term.write(x)`
ResetOnceAndWrite(log, dump, text, src) ==
    IF ~dump
    THEN log \o <<TermOp("reset", <<>>, src), TermOp("write", text, src)>>
    ELSE Append(log, TermOp("write", text, src))

\* mapTool
mapTool(t) == t

\* StatusOf with `!msg.exit_code` in place of `msg.exit_code === 0`
StatusOf_FalsyExitCode(type, exit_code) ==
    IF type = JsString(<<"r", "u", "n", "n", "i", "n", "g">>) THEN "running"
    ELSE IF exit_code \in {JsNumber(<<"0">>), JsUndefined} THEN "stopped"
    ELSE "error"

\* The status onSessionState is called with, from msg.type and msg.exit_code
StatusOf(type, exit_code) ==
    IF type = JsString(<<"r", "u", "n", "n", "i", "n", "g">>) THEN "running"
    ELSE IF exit_code = JsNumber(<<"0">>) THEN "stopped"
    ELSE "error"

\* IsSessionState testing for "running" alone
IsSessionState_RunningOnly(msg) ==
    /\ msg.root \notin {"invalid", "null"}
    /\ msg.type = JsString(<<"r", "u", "n", "n", "i", "n", "g">>)

\* `msg.type === "running" || msg.type === "exited"`; reading .type of null
\* throws inside the try, and the catch falls through to the raw text write
IsSessionState(msg) ==
    /\ msg.root \notin {"invalid", "null"}
    /\ msg.type \in {JsString(<<"r", "u", "n", "n", "i", "n", "g">>),
                     JsString(<<"e", "x", "i", "t", "e", "d">>)}

\* The outbound frames: JSON.stringify({type:"resize", cols, rows}), or the
\* emulator's input data as it is
ResizeFrame(cols, rows) ==
    [type |-> "resize", cols |-> cols, rows |-> rows, data |-> <<>>]
\* DataFrame with a line feed added to the datum
DataFrame_Newline(d) ==
    [type |-> "data", cols |-> 0, rows |-> 0, data |-> Append(d, "\n")]
DataFrame(d) == [type |-> "data", cols |-> 0, rows |-> 0, data |-> d]

\* What the fit addon can compute for the surface's box
Boxes == {<<80, 24>>, <<120, 40>>}

\* What the emulator reports as typed
KeyData == {<<"l", "s", "\r">>, <<"q">>}

\* cols and rows of a Terminal that was made without them
DefaultSize == <<80, 24>>

\* After initTerminal has run to its end: the emulator is open, the socket is
\* connecting and the handlers are installed
InitTerm ==
    \* the code leaves ws.binaryType as the platform made it ("blob" in a
    \* browser); ws.onmessage handles both deliveries
    /\ binaryType \in {"blob", "arraybuffer"}
    /\ wsReady = "CONNECTING"
    /\ wsClosing = FALSE
    /\ dumpReceived = FALSE
    /\ termLog = <<TermOp("writeln", N_Connecting, 0)>>
    /\ pendingBlobs = {}
    /\ box \in Boxes
    \* syncFit() ran before the socket was made
    /\ termSize = [i \in 1..MaxInits |-> IF i = 1 THEN box ELSE DefaultSize]
    /\ termTx = <<>>
    /\ termRx = <<>>
    /\ reported = <<>>
    /\ viewMode = "tabs"
    /\ isActive = TRUE
    /\ activeTimer = FALSE
    /\ modeTimer = {}
    /\ observerPending = FALSE
    /\ produced = <<>>

\* The terminal view is not in use
IdleTerm ==
    /\ binaryType = "blob"
    /\ wsReady = "CONNECTING"
    /\ wsClosing = FALSE
    /\ dumpReceived = FALSE
    /\ termLog = <<>>
    /\ pendingBlobs = {}
    /\ box = <<80, 24>>
    /\ termSize = [i \in 1..MaxInits |-> DefaultSize]
    /\ termTx = <<>>
    /\ termRx = <<>>
    /\ reported = <<>>
    /\ viewMode = "tabs"
    /\ isActive = TRUE
    /\ activeTimer = FALSE
    /\ modeTimer = {}
    /\ observerPending = FALSE
    /\ produced = <<>>

\* `null` of a ref or of a session id
Null == 0

\* a fit or a write on the surface of run i: recorded when the surface is
\* disposed
Against(ins, i, op) ==
    IF ins[i].surface = "disposed" THEN {[op |-> op, run |-> i]} ELSE {}

\* the refs and the runs of the view, but for the runs themselves and but
\* for the record of the calls on a disposed surface
lifeButInits ==
    <<mounted, initializedRef, fitAddonRef, termRef, wsRef, cleanupRef,
      started, misuse, sessionProp, stateCall>>
lifeButMisuse ==
    <<mounted, initializedRef, fitAddonRef, termRef, wsRef, cleanupRef,
      inits, started, sessionProp, stateCall>>

\* the closure state of the channel handlers, and the view but for the
\* size of its Terminals and the frames it sent
chanVars ==
    <<binaryType, wsReady, wsClosing, dumpReceived, termLog, pendingBlobs,
      termRx, reported, produced>>
viewButSizeTx == <<chanVars, box, geomVars>>
viewButSize == <<viewButSizeTx, termTx>>

\* the socket whose handlers run is the one wsRef holds: its readyState in
\* the record of its run follows wsReady
ChannelIs(c) ==
    inits' = IF wsRef = Null THEN inits ELSE [inits EXCEPT ![wsRef].channel = c]

\* `wsRef.current?.readyState` where termRef.current is set
RefReady ==
    IF wsRef = Null \/ termRef = Null THEN "none" ELSE inits[wsRef].channel

\* SendIfOpen without the readyState test
SendIfOpen_Always(ready, frame) == termTx' = Append(termTx, frame)

\* `if (ws.readyState === WebSocket.OPEN) ws.send(frame)`
SendIfOpen(ready, frame) ==
    IF ready = "OPEN"
    THEN termTx' = Append(termTx, frame)
    ELSE UNCHANGED termTx

\* `fitAddonRef.current?.fit()`: cols and rows of the Terminal the addon
\* was loaded into become what fits in the box b; the addon is the one of
\* the run that made it, whose surface may be disposed
fit(b) ==
    /\ termSize' = IF fitAddonRef = Null THEN termSize
                   ELSE [termSize EXCEPT ![fitAddonRef] = b]
    /\ misuse' = IF fitAddonRef = Null THEN misuse
                 ELSE misuse \cup Against(inits, fitAddonRef, "fit")

\* fitAndSendResize sending the column count as it is
fitAndSendResize_RawCols(b) ==
    /\ fit(b)
    /\ SendIfOpen(RefReady, ResizeFrame(termSize'[termRef][1],
                                        termSize'[termRef][2]))

\* fitAndSendResize: the fit through fitAddonRef, and then cols - 1 and rows
\* of the Terminal termRef holds are sent on the socket wsRef holds
fitAndSendResize(b) ==
    /\ fit(b)
    /\ SendIfOpen(RefReady, ResizeFrame(termSize'[termRef][1] - 1,
                                        termSize'[termRef][2]))

\* syncFit of run i: fitAddon.fit() on the Terminal of the run
syncFit(i) == termSize' = [termSize EXCEPT ![i] = box]

\* sendResize that fits and sends nothing
sendResize_FitOnly(i, b, ready) ==
    /\ termSize' = [termSize EXCEPT ![i] = b]
    /\ UNCHANGED termTx

\* sendResize of run i of initTerminal: fitAddon.fit(), then cols - 1 and
\* rows of its Terminal are sent when its socket, whose readyState is
\* `ready` at the call, is open
sendResize(i, b, ready) ==
    /\ termSize' = [termSize EXCEPT ![i] = b]
    /\ IF ready = "OPEN"
       THEN termTx' = Append(termTx, ResizeFrame(termSize'[i][1] - 1,
                                                 termSize'[i][2]))
       ELSE UNCHANGED termTx

\* ws.onopen: the socket is OPEN when the event is dispatched
WsOpen ==
    /\ wsRef # Null
    /\ wsReady = "CONNECTING"
    /\ wsReady' = "OPEN"
    /\ termLog' = Append(termLog, TermOp("writeln", N_Connected, 0))
    /\ sendResize(wsRef, box, "OPEN")
    /\ UNCHANGED <<binaryType, wsClosing, dumpReceived, pendingBlobs, box,
                   termRx, reported>>
    /\ UNCHANGED <<geomVars, produced>>
    /\ ChannelIs("OPEN")
    /\ UNCHANGED <<chatVars, appVars, lifeButInits>>

\* ws.onmessage on a binary frame delivered as an ArrayBuffer
WsMessageArrayBuffer(f) ==
    /\ f.kind = "binary" /\ binaryType = "arraybuffer"
    /\ termLog' = ResetOnceAndWrite(termLog, dumpReceived,
                                    Utf8Decode(f.bytes), Len(termRx) + 1)
    /\ dumpReceived' = TRUE
    /\ UNCHANGED <<pendingBlobs, reported>>

\* ws.onmessage on a binary frame delivered as a Blob: the handler returns
\* with data.arrayBuffer() pending
WsMessageBlob(f) ==
    /\ f.kind = "binary" /\ binaryType = "blob"
    /\ pendingBlobs' = pendingBlobs \cup {Len(termRx) + 1}
    /\ UNCHANGED <<termLog, dumpReceived, reported>>

\* WsMessageString writing only the frames that JSON.parse rejects
WsMessageString_JsonDropped(f) ==
    LET msg == ParseSessionState(f.data) IN
    /\ f.kind = "string"
    /\ IF IsSessionState(msg)
       THEN /\ reported' = Append(reported,
                    [tool |-> mapTool(msg.tool),
                     status |-> StatusOf(msg.type, msg.exit_code)])
            /\ UNCHANGED <<termLog, dumpReceived>>
       ELSE IF msg.root = "invalid"
       THEN /\ termLog' = ResetOnceAndWrite(termLog, dumpReceived, f.data,
                                            Len(termRx) + 1)
            /\ dumpReceived' = TRUE
            /\ UNCHANGED reported
       ELSE UNCHANGED <<termLog, dumpReceived, reported>>
    /\ UNCHANGED pendingBlobs

\* ws.onmessage on a text frame
WsMessageString(f) ==
    LET msg == ParseSessionState(f.data) IN
    /\ f.kind = "string"
    /\ IF IsSessionState(msg)
       THEN /\ reported' = Append(reported,
                    [tool |-> mapTool(msg.tool),
                     status |-> StatusOf(msg.type, msg.exit_code)])
            /\ UNCHANGED <<termLog, dumpReceived>>
       ELSE /\ termLog' = ResetOnceAndWrite(termLog, dumpReceived, f.data,
                                            Len(termRx) + 1)
            /\ dumpReceived' = TRUE
            /\ UNCHANGED reported
    /\ UNCHANGED pendingBlobs

\* ws.onmessage
WsMessage(f) ==
    /\ wsReady = "OPEN"
    /\ Len(termRx) < MaxTermFrames
    /\ termRx' = Append(termRx, f)
    /\ \/ WsMessageArrayBuffer(f)
       \/ WsMessageBlob(f)
       \/ WsMessageString(f)
    /\ UNCHANGED <<binaryType, wsReady, wsClosing, box, termSize, termTx>>
    /\ UNCHANGED <<geomVars, produced>>
    /\ UNCHANGED <<chatVars, appVars, lifeVars>>

\* the continuation of data.arrayBuffer().then(...) for the Blob at
\* position i; the promises of different Blobs settle in no fixed order
BlobResolved(i) ==
    /\ i \in pendingBlobs
    /\ pendingBlobs' = pendingBlobs \ {i}
    /\ termLog' = ResetOnceAndWrite(termLog, dumpReceived,
                                    Utf8Decode(termRx[i].bytes), i)
    /\ dumpReceived' = TRUE
    /\ UNCHANGED <<binaryType, wsReady, wsClosing, box, termSize, termTx,
                   termRx, reported>>
    /\ UNCHANGED <<geomVars, produced>>
    /\ UNCHANGED <<chatVars, appVars, lifeVars>>

\* ws.onerror: the connection failed; its close event follows
WsError ==
    /\ wsReady \in {"CONNECTING", "OPEN"}
    /\ wsReady' = "CLOSED"
    /\ wsClosing' = TRUE
    /\ termLog' = Append(termLog, TermOp("writeln", N_Error, 0))
    /\ UNCHANGED <<binaryType, dumpReceived, pendingBlobs, box, termSize,
                   termTx, termRx, reported>>
    /\ UNCHANGED <<geomVars, produced>>
    /\ ChannelIs("CLOSED")
    /\ UNCHANGED <<chatVars, appVars, lifeButInits>>

\* ws.onclose that opens the connection again
WsClose_Reconnect ==
    /\ wsReady = "OPEN" \/ wsClosing
    /\ wsReady' = "CONNECTING"
    /\ wsClosing' = FALSE
    /\ termLog' = Append(termLog, TermOp("writeln", N_Closed, 0))
    /\ UNCHANGED <<binaryType, dumpReceived, pendingBlobs, box, termSize,
                   termTx, termRx, reported>>
    /\ UNCHANGED <<geomVars, produced>>
    /\ ChannelIs("CONNECTING")
    /\ UNCHANGED <<chatVars, appVars, lifeButInits>>

\* ws.onclose
WsClose ==
    /\ wsReady = "OPEN" \/ wsClosing
    /\ wsReady' = "CLOSED"
    /\ wsClosing' = FALSE
    /\ termLog' = Append(termLog, TermOp("writeln", N_Closed, 0))
    /\ UNCHANGED <<binaryType, dumpReceived, pendingBlobs, box, termSize,
                   termTx, termRx, reported>>
    /\ UNCHANGED <<geomVars, produced>>
    /\ ChannelIs("CLOSED")
    /\ UNCHANGED <<chatVars, appVars, lifeButInits>>

\* term.onData
TermData(d) ==
    /\ Len(produced) < MaxKeys
    /\ SendIfOpen(wsReady, DataFrame(d))
    /\ produced' = Append(produced, [data |-> d, open |-> wsReady = "OPEN"])
    /\ UNCHANGED <<binaryType, wsReady, wsClosing, dumpReceived, termLog,
                   pendingBlobs, box, termSize, termRx, reported>>
    /\ UNCHANGED geomVars
    /\ UNCHANGED <<chatVars, appVars, lifeVars>>

\* the surface's box changes to b: the ResizeObserver of the mounted view
\* will deliver its notification in the next rendering step
BoxChanged(b) ==
    /\ mounted
    /\ b # box
    /\ box' = b
    /\ observerPending' = TRUE
    /\ UNCHANGED <<binaryType, wsReady, wsClosing, dumpReceived, termLog,
                   pendingBlobs, termSize, termTx, termRx, reported,
                   viewMode, isActive, activeTimer, modeTimer, produced>>
    /\ UNCHANGED <<chatVars, appVars, lifeVars>>

\* the ResizeObserver callback: fitAndSendResize
ObserverFired ==
    /\ mounted
    /\ observerPending
    /\ Len(termTx) < MaxTermTx
    /\ observerPending' = FALSE
    /\ fitAndSendResize(box)
    /\ UNCHANGED <<binaryType, wsReady, wsClosing, dumpReceived, termLog,
                   pendingBlobs, box, termRx, reported, viewMode, isActive,
                   activeTimer, modeTimer, produced>>
    /\ UNCHANGED <<chatVars, appVars, lifeButMisuse>>

\* the window's resize event: fitAndSendResize
WindowResized ==
    /\ mounted
    /\ Len(termTx) < MaxTermTx
    /\ fitAndSendResize(box)
    /\ UNCHANGED <<binaryType, wsReady, wsClosing, dumpReceived, termLog,
                   pendingBlobs, box, termRx, reported, geomVars, produced>>
    /\ UNCHANGED <<chatVars, appVars, lifeButMisuse>>

\* ViewModeChanged whose effect has no cleanup
ViewModeChanged_NoClear(v) ==
    /\ mounted
    /\ v # viewMode
    /\ viewMode' = v
    /\ modeTimer' = modeTimer \cup {v}
    /\ UNCHANGED <<binaryType, wsReady, wsClosing, dumpReceived, termLog,
                   pendingBlobs, box, termSize, termTx, termRx, reported,
                   isActive, activeTimer, observerPending, produced>>
    /\ UNCHANGED <<chatVars, appVars, lifeVars>>

\* the prop viewMode of the mounted view changes: the [viewMode] effect's
\* cleanup clears the timer of the previous run and the effect sets a new one
ViewModeChanged(v) ==
    /\ mounted
    /\ v # viewMode
    /\ viewMode' = v
    /\ modeTimer' = (modeTimer \ {viewMode}) \cup {v}
    /\ UNCHANGED <<binaryType, wsReady, wsClosing, dumpReceived, termLog,
                   pendingBlobs, box, termSize, termTx, termRx, reported,
                   isActive, activeTimer, observerPending, produced>>
    /\ UNCHANGED <<chatVars, appVars, lifeVars>>

\* the timer of the [viewMode] effect fires: fitAndSendResize
ModeTimerFired ==
    /\ Len(termTx) < MaxTermTx
    /\ \E t \in modeTimer : modeTimer' = modeTimer \ {t}
    /\ fitAndSendResize(box)
    /\ UNCHANGED <<binaryType, wsReady, wsClosing, dumpReceived, termLog,
                   pendingBlobs, box, termRx, reported, viewMode, isActive,
                   activeTimer, observerPending, produced>>
    /\ UNCHANGED <<chatVars, appVars, lifeButMisuse>>

\* the prop isActive of the mounted view changes: the [isActive] effect's
\* cleanup clears the pending timer, and the effect sets one when the view
\* became active and fitAddonRef.current is set
ActiveChanged(a) ==
    /\ mounted
    /\ a # isActive
    /\ isActive' = a
    /\ activeTimer' = (a /\ fitAddonRef # Null)
    /\ UNCHANGED <<binaryType, wsReady, wsClosing, dumpReceived, termLog,
                   pendingBlobs, box, termSize, termTx, termRx, reported,
                   viewMode, modeTimer, observerPending, produced>>
    /\ UNCHANGED <<chatVars, appVars, lifeVars>>

\* the timer of the [isActive] effect fires: fitAddonRef.current?.fit()
ActiveTimerFired ==
    /\ activeTimer
    /\ activeTimer' = FALSE
    /\ fit(box)
    /\ UNCHANGED <<binaryType, wsReady, wsClosing, dumpReceived, termLog,
                   pendingBlobs, box, termTx, termRx, reported, viewMode,
                   isActive, modeTimer, observerPending, produced>>
    /\ UNCHANGED <<chatVars, appVars, lifeButMisuse>>

-----------------------------------------------------------------------------
(* TerminalView: mount, asynchronous initialisation and teardown *)

\* the props and the state of the single-channel model that the mount and
\* the unmount leave alone
termButTimers ==
    <<binaryType, wsReady, wsClosing, dumpReceived, termLog, pendingBlobs,
      box, termSize, termTx, termRx, reported, viewMode, isActive, produced>>

\* the props and the state of the single-channel model other than the
\* timers of the [viewMode] effect
termButModeTimer == <<termButTimers, activeTimer, observerPending>>

\* A run of initTerminal.  pc: "idle" (not started), "imports" (awaiting
\* the imports of lines 79-81), "renderer" (awaiting the import of line
\* 105), "done", "aborted" (term.open threw: no element).  surface and
\* channel are the Terminal and the WebSocket the run made.  raf and
\* fitTimeout are the pending requestAnimationFrame and setTimeout(syncFit).
\* torn: the cleanup of the effect that started the run has run.  session:
\* the session.id in the closure of the run, which its WebSocket is for.
NoRun ==
    [pc |-> "idle", surface |-> "none", channel |-> "none", raf |-> FALSE,
     fitTimeout |-> FALSE, torn |-> FALSE, session |-> Null]

\* the two sessions the tabs switch between
OtherSession(id) == IF id = 1 THEN 2 ELSE 1

InitLife ==
    /\ mounted = FALSE
    /\ initializedRef = FALSE
    /\ fitAddonRef = Null
    /\ termRef = Null
    /\ wsRef = Null
    /\ cleanupRef = Null
    /\ inits = [i \in 1..MaxInits |-> NoRun]
    /\ started = 0
    /\ misuse = {}
    /\ sessionProp = 1
    /\ stateCall = <<>>

\* No view is modelled
IdleLife == InitLife

\* The view is mounted and its initTerminal has run to its end: the refs
\* hold what the first run made
LiveLife ==
    /\ mounted = TRUE
    /\ initializedRef = TRUE
    /\ fitAddonRef = 1
    /\ termRef = 1
    /\ wsRef = 1
    /\ cleanupRef = 1
    /\ inits = [i \in 1..MaxInits |->
                  IF i = 1
                  THEN [NoRun EXCEPT !.pc = "done", !.surface = "open",
                                     !.channel = "CONNECTING", !.session = 1]
                  ELSE NoRun]
    /\ started = 1
    /\ misuse = {}
    /\ sessionProp = 1
    /\ stateCall = <<>>

\* ws.close(): a socket that is connecting or open starts closing, on a
\* socket that is closing or closed the call does nothing
Closed(channel) ==
    IF channel \in {"CONNECTING", "OPEN"} THEN "CLOSING" ELSE channel

\* initTerminal up to its first await
StartInit(ins) ==
    IF initializedRef
    THEN /\ inits' = ins
         /\ UNCHANGED started
         /\ initializedRef' = TRUE
    ELSE /\ started < MaxInits
         /\ inits' = [ins EXCEPT ![started + 1].pc = "imports",
                                 ![started + 1].session = sessionProp]
         /\ started' = started + 1
         /\ initializedRef' = TRUE

\* the cleanup of the [initTerminal] effect, applied to the runs:
\* cleanupRef.current?.() closes the socket of its run, and then
\* wsRef.current.close() closes the socket wsRef holds
Teardown(ins) ==
    [i \in DOMAIN ins |->
        [ins[i] EXCEPT
            !.channel =
                LET c == IF i = cleanupRef THEN Closed(@) ELSE @
                IN  IF i = wsRef THEN Closed(c) ELSE c,
            !.surface = IF i = termRef THEN "disposed" ELSE @,
            !.torn = (ins[i].pc # "idle")]]

\* the view is mounted: the effects run (initTerminal starts, the
\* [isActive] effect sets its timer when the view is active and
\* fitAddonRef.current is set, which a run before an earlier unmount has
\* done, the [viewMode] effect sets its timer, the resize listener and the
\* ResizeObserver are put in place)
Mount ==
    /\ ~mounted
    /\ mounted' = TRUE
    /\ StartInit(inits)
    /\ activeTimer' = (isActive /\ fitAddonRef # Null)
    /\ modeTimer' = modeTimer \cup {viewMode}
    /\ UNCHANGED <<fitAddonRef, termRef, wsRef, cleanupRef, misuse>>
    /\ UNCHANGED <<termButTimers, observerPending>>
    /\ UNCHANGED <<chatVars, appVars, reuseVars>>

\* the view is unmounted: every effect cleanup runs (the teardown of
\* initTerminal, clearTimeout of the [isActive] and of the [viewMode] timer,
\* the resize listener removed and the ResizeObserver disconnected)
Unmount ==
    /\ mounted
    /\ mounted' = FALSE
    /\ inits' = Teardown(inits)
    /\ cleanupRef' = Null
    /\ termRef' = Null
    /\ wsRef' = Null
    /\ initializedRef' = FALSE
    /\ activeTimer' = FALSE
    /\ modeTimer' = modeTimer \ {viewMode}
    /\ observerPending' = FALSE
    /\ UNCHANGED <<fitAddonRef, started, misuse>>
    /\ UNCHANGED termButTimers
    /\ UNCHANGED <<chatVars, appVars, reuseVars>>

\* the prop session changes to another session (another tab is selected):
\* initTerminal changes, so the cleanup of the effect runs and then the
\* effect again
SessionChanged ==
    /\ mounted
    /\ initializedRef' = TRUE
    /\ started < MaxInits
    /\ sessionProp' = OtherSession(sessionProp)
    /\ inits' = [Teardown(inits) EXCEPT ![started + 1].pc = "imports",
                                        ![started + 1].session = sessionProp']
    /\ started' = started + 1
    /\ cleanupRef' = Null
    /\ termRef' = Null
    /\ wsRef' = Null
    /\ UNCHANGED <<mounted, fitAddonRef, misuse, stateCall>>
    /\ UNCHANGED <<termButModeTimer, modeTimer>>
    /\ UNCHANGED <<chatVars, appVars>>

\* the imports of lines 79-81 resolve: lines 83-105.  term.open throws
\* when the element is gone
ImportsLoaded(i) ==
    /\ inits[i].pc = "imports"
    /\ fitAddonRef' = i
    /\ inits' = IF mounted
                THEN [inits EXCEPT ![i].pc = "renderer", ![i].surface = "open"]
                ELSE [inits EXCEPT ![i].pc = "aborted"]
    /\ UNCHANGED <<mounted, initializedRef, termRef, wsRef, cleanupRef,
                   started, misuse>>
    /\ UNCHANGED <<termButModeTimer, modeTimer>>
    /\ UNCHANGED <<chatVars, appVars, reuseVars>>

\* the import of line 105 resolves: lines 106-206, with the syncFit() of
\* line 117
RendererLoaded(i) ==
    /\ inits[i].pc = "renderer"
    /\ termRef' = i
    /\ wsRef' = i
    /\ cleanupRef' = i
    /\ inits' = [inits EXCEPT ![i].pc = "done", ![i].raf = TRUE,
                              ![i].channel = "CONNECTING"]
    /\ misuse' = misuse \cup Against(inits, i, "fit")
                        \cup Against(inits, i, "write")
    /\ syncFit(i)
    /\ UNCHANGED <<mounted, initializedRef, fitAddonRef, started>>
    /\ UNCHANGED viewButSize
    /\ UNCHANGED <<chatVars, appVars, reuseVars>>

\* the callback of requestAnimationFrame: syncFit(); setTimeout(syncFit, 0)
AnimationFrame(i) ==
    /\ inits[i].raf
    /\ inits' = [inits EXCEPT ![i].raf = FALSE, ![i].fitTimeout = TRUE]
    /\ misuse' = misuse \cup Against(inits, i, "fit")
    /\ syncFit(i)
    /\ UNCHANGED <<mounted, initializedRef, fitAddonRef, termRef, wsRef,
                   cleanupRef, started>>
    /\ UNCHANGED viewButSize
    /\ UNCHANGED <<chatVars, appVars, reuseVars>>

\* setTimeout(syncFit, 0) fires
FitTimeout(i) ==
    /\ inits[i].fitTimeout
    /\ inits' = [inits EXCEPT ![i].fitTimeout = FALSE]
    /\ misuse' = misuse \cup Against(inits, i, "fit")
    /\ syncFit(i)
    /\ UNCHANGED <<mounted, initializedRef, fitAddonRef, termRef, wsRef,
                   cleanupRef, started>>
    /\ UNCHANGED viewButSize
    /\ UNCHANGED <<chatVars, appVars, reuseVars>>

\* ws.onopen of the channel of run i: term.writeln, sendResize
ChannelOpened(i) ==
    /\ inits[i].channel = "CONNECTING"
    /\ inits' = [inits EXCEPT ![i].channel = "OPEN"]
    /\ misuse' = misuse \cup Against(inits, i, "write")
                        \cup Against(inits, i, "fit")
    /\ sendResize(i, box, "OPEN")
    /\ UNCHANGED <<mounted, initializedRef, fitAddonRef, termRef, wsRef,
                   cleanupRef, started>>
    /\ UNCHANGED viewButSizeTx
    /\ UNCHANGED <<chatVars, appVars, reuseVars>>

\* ws.onclose of the channel of run i (closed from either side):
\* term.writeln
ChannelClosed(i) ==
    /\ inits[i].channel \in {"CONNECTING", "OPEN", "CLOSING"}
    /\ inits' = [inits EXCEPT ![i].channel = "CLOSED"]
    /\ misuse' = misuse \cup Against(inits, i, "write")
    /\ UNCHANGED <<mounted, initializedRef, fitAddonRef, termRef, wsRef,
                   cleanupRef, started>>
    /\ UNCHANGED <<termButModeTimer, modeTimer>>
    /\ UNCHANGED <<chatVars, appVars, reuseVars>>

\* ws.onmessage of the channel of run i on a state notification:
\* onSessionStateRef.current?.(...), the callback of the latest render
StateNotified(i) ==
    /\ inits[i].channel = "OPEN"
    /\ stateCall' = <<[channel |-> inits[i].session, entry |-> sessionProp]>>
    /\ UNCHANGED <<mounted, initializedRef, fitAddonRef, termRef, wsRef,
                   cleanupRef, inits, started, misuse, sessionProp>>
    /\ UNCHANGED <<termButModeTimer, modeTimer>>
    /\ UNCHANGED <<chatVars, appVars>>

-----------------------------------------------------------------------------
(* App: the session registry and the sessions API *)

\* String.prototype.toLowerCase on the tool names in use
toLowerCase(s) ==
    CASE s = "Claude" -> "claude"
      [] s = "Gemini" -> "gemini"
      [] OTHER -> s

sessionToName(tool) ==
    LET t == toLowerCase(tool) IN
    IF t = "claude" THEN "Claude"
    ELSE IF t = "gemini" THEN "Gemini"
    ELSE IF t = "codex" THEN "Codex"
    ELSE "Terminal"

mapApiStatus(s) ==
    IF s = "running" THEN "running"
    ELSE IF s = "exited" THEN "stopped"
    ELSE "idle"

mapApiTool(s) ==
    LET t == toLowerCase(s) IN
    IF t \in {"claude", "gemini", "codex", "generic"} THEN t ELSE "generic"

\* SessionListItem
SessionListItem(id, tool, status) ==
    [session_id |-> id, tool |-> tool, status |-> status]

sessionListItemToSession(item) ==
    [id |-> item.session_id,
     name |-> sessionToName(item.tool),
     tool |-> mapApiTool(item.tool),
     status |-> mapApiStatus(item.status),
     command |-> item.tool]

\* array.map, array.filter on the session list
MapSessions(items) == [k \in DOMAIN items |-> sessionListItemToSession(items[k])]
WithoutId(ss, id) == LET Keep(s) == s.id # id IN SelectSeq(ss, Keep)
Ids(ss) == {ss[k].id : k \in DOMAIN ss}

\* setSessionState that derives the name from the tool, as the list load does
WithState_Rename(ss, sessionId, tool, status) ==
    [k \in DOMAIN ss |->
        IF ss[k].id = sessionId
        THEN [ss[k] EXCEPT !.tool = tool, !.status = status,
                           !.name = sessionToName(tool)]
        ELSE ss[k]]

\* sessions.map((s) => (s.id === sessionId ? { ...s, tool, status } : s))
WithState(ss, sessionId, tool, status) ==
    [k \in DOMAIN ss |->
        IF ss[k].id = sessionId
        THEN [ss[k] EXCEPT !.tool = tool, !.status = status]
        ELSE ss[k]]

\* `remaining[0]?.id ?? null`
FirstId(ss) == IF ss = <<>> THEN Null ELSE ss[1].id

\* An API call in flight: phase "sent" until the backend has answered, then "ok"
\* until the continuation of the await has run
Request(kind, n, sid, tool, snapshot) ==
    [kind |-> kind, n |-> n, sid |-> sid, tool |-> tool, phase |-> "sent",
     result |-> <<>>, snapshot |-> snapshot]

\* What the backend holds when the page is loaded
BackendLists ==
    {<<>>,
     <<SessionListItem(1, "claude", "running")>>,
     <<SessionListItem(1, "claude", "running"),
       SessionListItem(2, "Gemini", "exited")>>}

\* What a state notification of a terminal channel reports
SessionStates ==
    {[tool |-> "generic", status |-> "error"]}

\* the tools of the "add" menu that the model uses
ToolChoices == {"generic"}

\* useState initial values and the mount effects of App: getSessions() is
\* in flight
InitApp ==
    /\ page = "terminal"
    /\ sessions = <<>>
    /\ activeTabId = Null
    /\ maximizedSession = Null
    /\ sessionsLoading = TRUE
    /\ backend \in BackendLists
    /\ requests = {Request("list", 0, Null, "", <<>>)}
    /\ createdHere = {}
    /\ hadPanel = {}
    /\ viewTimers = <<>>
    /\ unhandled = FALSE
    /\ events = 0

\* The registry is not in use
IdleApp ==
    /\ page = "terminal"
    /\ sessions = <<>>
    /\ activeTabId = Null
    /\ maximizedSession = Null
    /\ sessionsLoading = TRUE
    /\ backend = <<>>
    /\ requests = {}
    /\ createdHere = {}
    /\ hadPanel = {}
    /\ viewTimers = <<>>
    /\ unhandled = FALSE
    /\ events = 0

\* maximizedSessionData: the maximized session, when it is in the list
HasMaximizedData == maximizedSession # Null /\ maximizedSession \in Ids(sessions)

\* the session has a TerminalPanel on the page
Visible(id) ==
    /\ page = "terminal"
    /\ id \in Ids(sessions)
    /\ IF HasMaximizedData THEN id = maximizedSession
       ELSE IF viewMode = "tabs" THEN id = activeTabId
       ELSE TRUE

\* the session has its tab in the tab bar
HasTab(id) == page = "terminal" /\ viewMode = "tabs" /\ id \in Ids(sessions)

\* the TerminalPanels of main, each named by its key: the panel of the
\* maximized session and the panel of the active tab are the first child
\* of the same div and have no key (Null), the panels of the grid have the
\* key session.id
Slots ==
    IF page # "terminal" THEN {}
    ELSE IF HasMaximizedData THEN {Null}
    ELSE IF viewMode = "tabs"
         THEN (IF activeTabId \in Ids(sessions) THEN {Null} ELSE {})
    ELSE Ids(sessions)

\* the views after a render of App.  A panel whose key was rendered before
\* keeps its TerminalView; the view of a panel that is gone is unmounted
\* and clears its [viewMode] timer; then the view of every new panel is
\* mounted and sets its timer, and so does every view when viewMode has
\* changed (after clearing the one it had), in the order of the panels
Panels ==
    LET shown == {id \in Ids(sessions') : Visible(id)'}
        kept == IF viewMode' = viewMode THEN Slots \cap Slots' ELSE {}
        Kept(s) == s \in kept
        Fresh(s) == s \in Slots' \ kept
        keys == IF Null \in Slots' THEN <<Null>>
                ELSE [k \in DOMAIN sessions' |-> sessions'[k].id]
    IN
    /\ hadPanel' = hadPanel \cup shown
    /\ viewTimers' = SelectSeq(viewTimers, Kept) \o SelectSeq(keys, Fresh)
    /\ modeTimer' = IF viewTimers' = <<>> THEN {} ELSE {viewMode'}

\* an API call is made
Issue(r) ==
    /\ requests' = requests \cup {r}

\* the continuation of an API call has run: the error of a failed call
\* stays in the handler when a catch takes it
Settle(r, ok, caught) ==
    /\ requests' = requests \ {r}
    /\ unhandled' = (unhandled \/ (~ok /\ ~caught))

\* one more user action or channel notification is handled
Handled ==
    /\ events < MaxEvents
    /\ events' = events + 1

\* setPage, and the effect that loads the sessions when the page becomes
\* "terminal"
setPage(pg) ==
    /\ pg # page
    /\ page' = pg
    /\ IF pg = "terminal"
       THEN /\ sessionsLoading' = TRUE
            /\ Issue(Request("list", events + 1, Null, "", <<>>))
       ELSE UNCHANGED <<sessionsLoading, requests>>
    /\ Handled
    /\ UNCHANGED <<sessions, activeTabId, maximizedSession, backend,
                   createdHere, unhandled>>
    /\ UNCHANGED <<chatVars, termButModeTimer, lifeVars>>
    /\ Panels

\* the backend answers an API call: the list it holds, a new session (the
\* id of no other session), or the removal of a session
BackendAnswers(r) ==
    LET item == SessionListItem(r.n + 2, r.tool, "running")
        Keep(i) == i.session_id # r.sid
    IN
    /\ r \in requests
    /\ r.phase = "sent"
    /\ CASE r.kind = "list" ->
              /\ requests' = (requests \ {r}) \cup
                    {[r EXCEPT !.phase = "ok", !.result = backend]}
              /\ UNCHANGED backend
         [] r.kind = "create" ->
              /\ requests' = (requests \ {r}) \cup
                    {[r EXCEPT !.phase = "ok", !.result = <<item>>]}
              /\ backend' = Append(backend, item)
         [] r.kind = "delete" ->
              /\ requests' = (requests \ {r}) \cup
                    {[r EXCEPT !.phase = "ok"]}
              /\ backend' = SelectSeq(backend, Keep)
    /\ UNCHANGED <<page, sessions, activeTabId, maximizedSession,
                   sessionsLoading, createdHere, unhandled>>
    /\ UNCHANGED events
    /\ UNCHANGED <<hadPanel, viewTimers>>
    /\ UNCHANGED <<chatVars, termVars, lifeVars>>

\* the call of the API returns: with the answer of the backend (ok), or
\* with an error, before the backend has handled the call or after it
\* (the answer is lost, or is not an ok response)
Returned(r, ok) == ok => r.phase = "ok"

\* getSessions().then(...).catch(...).finally(...)
getSessionsDone(r, ok) ==
    LET list == MapSessions(r.result) IN
    /\ r \in requests
    /\ r.kind = "list"
    /\ Returned(r, ok)
    /\ IF ok
       THEN /\ sessions' = list
            /\ activeTabId' =
                  IF list = <<>> THEN Null
                  ELSE IF activeTabId # Null /\ activeTabId \in Ids(list)
                       THEN activeTabId
                       ELSE list[1].id
       ELSE UNCHANGED <<sessions, activeTabId>>
    /\ sessionsLoading' = FALSE
    /\ Settle(r, ok, TRUE)
    /\ UNCHANGED <<page, maximizedSession, backend, createdHere>>
    /\ UNCHANGED events
    /\ UNCHANGED <<chatVars, termButModeTimer, lifeVars>>
    /\ Panels

\* handleAddCli up to `await createSession({ tool })`
handleAddCli(tool) ==
    /\ page = "terminal"
    /\ viewMode = "tabs"
    /\ Issue(Request("create", events + 1, Null, tool, <<>>))
    /\ UNCHANGED <<page, sessions, activeTabId, maximizedSession,
                   sessionsLoading, backend, createdHere, unhandled>>
    /\ Handled
    /\ UNCHANGED <<chatVars, termButModeTimer, lifeVars>>
    /\ Panels

\* handleAddCli after the await
handleAddCliDone(r, ok) ==
    LET res == r.result[1]
        session == sessionListItemToSession(
                       SessionListItem(res.session_id, res.tool, "running"))
    IN
    /\ r \in requests
    /\ r.kind = "create"
    /\ Returned(r, ok)
    /\ IF ok
       THEN /\ sessions' = Append(sessions, session)
            /\ activeTabId' = session.id
            /\ createdHere' = createdHere \cup {session.id}
       ELSE /\ UNCHANGED <<sessions, activeTabId, createdHere>>
    /\ Settle(r, ok, TRUE)
    /\ UNCHANGED <<page, maximizedSession, sessionsLoading, backend>>
    /\ UNCHANGED events
    /\ UNCHANGED <<chatVars, termButModeTimer, lifeVars>>
    /\ Panels

\* closeSession up to `await deleteSession(sessionId)`: the callback holds
\* the `groups` of the render it was made in
closeSession(sessionId) ==
    /\ HasTab(sessionId) \/ Visible(sessionId)
    /\ Issue(Request("delete", events + 1, sessionId, "", sessions))
    /\ UNCHANGED <<page, sessions, activeTabId, maximizedSession,
                   sessionsLoading, backend, createdHere, unhandled>>
    /\ Handled
    /\ UNCHANGED <<chatVars, termButModeTimer, lifeVars>>
    /\ Panels

\* closeSession that updates the registry whatever deleteSession returned
closeSessionDone_Optimistic(r, ok) ==
    /\ r \in requests
    /\ r.kind = "delete"
    /\ Returned(r, ok)
    /\ sessions' = WithoutId(sessions, r.sid)
    /\ activeTabId' = IF activeTabId # r.sid THEN activeTabId
                      ELSE FirstId(WithoutId(r.snapshot, r.sid))
    /\ maximizedSession' =
          IF maximizedSession = r.sid THEN Null ELSE maximizedSession
    /\ Settle(r, ok, TRUE)
    /\ UNCHANGED <<page, sessionsLoading, backend, createdHere>>
    /\ UNCHANGED events
    /\ UNCHANGED <<chatVars, termButModeTimer, lifeVars>>
    /\ Panels

\* closeSession after the await
closeSessionDone(r, ok) ==
    /\ r \in requests
    /\ r.kind = "delete"
    /\ Returned(r, ok)
    /\ IF ok
       THEN /\ sessions' = WithoutId(sessions, r.sid)
            /\ activeTabId' = IF activeTabId # r.sid THEN activeTabId
                              ELSE FirstId(WithoutId(r.snapshot, r.sid))
            /\ maximizedSession' =
                  IF maximizedSession = r.sid THEN Null ELSE maximizedSession
       ELSE /\ UNCHANGED <<sessions, activeTabId, maximizedSession>>
    /\ Settle(r, ok, TRUE)
    /\ UNCHANGED <<page, sessionsLoading, backend, createdHere>>
    /\ UNCHANGED events
    /\ UNCHANGED <<chatVars, termButModeTimer, lifeVars>>
    /\ Panels

\* the click on a tab: setActiveTabId(session.id); setMaximizedSession(null)
TabSelected(id) ==
    /\ HasTab(id)
    /\ activeTabId' = id
    /\ maximizedSession' = Null
    /\ UNCHANGED <<page, sessions, sessionsLoading, backend, requests,
                   createdHere, unhandled>>
    /\ Handled
    /\ UNCHANGED <<chatVars, termButModeTimer, lifeVars>>
    /\ Panels

\* the updater of toggleMaximize that never clears
toggled_SetOnly(prev, sessionId) == sessionId

\* the updater of toggleMaximize: `prev === sessionId ? null : sessionId`
toggled(prev, sessionId) == IF prev = sessionId THEN Null ELSE sessionId

toggleMaximize(sessionId) ==
    /\ Visible(sessionId)
    /\ maximizedSession' = toggled(maximizedSession, sessionId)
    /\ UNCHANGED <<page, sessions, activeTabId, sessionsLoading, backend,
                   requests, createdHere, unhandled>>
    /\ Handled
    /\ UNCHANGED <<chatVars, termButModeTimer, lifeVars>>
    /\ Panels

\* the "Exit Maximized" button: setMaximizedSession(null)
ExitMaximized ==
    /\ maximizedSession # Null
    /\ maximizedSession' = Null
    /\ UNCHANGED <<page, sessions, activeTabId, sessionsLoading, backend,
                   requests, createdHere, unhandled>>
    /\ Handled
    /\ UNCHANGED <<chatVars, termButModeTimer, lifeVars>>
    /\ Panels

\* setSessionState, called through onSessionStateRef.current on a state
\* notification of a channel made for the view of the session; the channel
\* of a view that was torn down while it was initialising outlives the
\* view, so the call can also name a session that has no panel now or that
\* was closed
setSessionState(sessionId, tool, status) ==
    /\ sessionId \in hadPanel
    /\ sessions' = WithState(sessions, sessionId, tool, status)
    /\ UNCHANGED <<page, activeTabId, maximizedSession, sessionsLoading,
                   backend, requests, createdHere, unhandled>>
    /\ Handled
    /\ UNCHANGED <<chatVars, termButModeTimer, lifeVars>>
    /\ Panels

\* the [viewMode] timer of the view that set its timer first fires: the
\* view runs its fitAndSendResize, the fit through fitAddonRef and the
\* resize frame when the socket wsRef holds is open
PanelTimerFired ==
    /\ viewTimers # <<>>
    /\ viewTimers' = Tail(viewTimers)
    /\ modeTimer' = IF viewTimers' = <<>> THEN {} ELSE {viewMode}
    /\ fitAndSendResize(box)
    /\ UNCHANGED <<page, sessions, activeTabId, maximizedSession,
                   sessionsLoading, backend, requests, createdHere, hadPanel,
                   unhandled, events>>
    /\ UNCHANGED <<binaryType, wsReady, wsClosing, dumpReceived, termLog,
                   pendingBlobs, box, termRx, reported, viewMode, isActive,
                   activeTimer, observerPending, produced>>
    /\ UNCHANGED <<chatVars, lifeButMisuse>>

\* the view toggle of the header (shown on the terminal page): setViewMode
setViewMode(v) ==
    /\ page = "terminal"
    /\ v # viewMode
    /\ viewMode' = v
    /\ Handled
    /\ UNCHANGED <<page, sessions, activeTabId, maximizedSession,
                   sessionsLoading, backend, requests, createdHere, unhandled>>
    /\ UNCHANGED <<binaryType, wsReady, wsClosing, dumpReceived, termLog,
                   pendingBlobs, box, termSize, termTx, termRx, reported,
                   isActive, activeTimer, observerPending, produced>>
    /\ UNCHANGED <<chatVars, lifeVars>>
    /\ Panels

-----------------------------------------------------------------------------
(* Transcripts for the prompt construction *)

Digit(d) ==
    CASE d = 0 -> "0" [] d = 1 -> "1" [] d = 2 -> "2" [] d = 3 -> "3"
      [] d = 4 -> "4" [] d = 5 -> "5" [] d = 6 -> "6" [] d = 7 -> "7"
      [] d = 8 -> "8" [] d = 9 -> "9"

\* String(n), n >= 0
RECURSIVE Decimal(_)
Decimal(n) ==
    IF n < 10 THEN <<Digit(n)>> ELSE Append(Decimal(n \div 10), Digit(n % 10))

\* A transcript of n turns as the handlers build them: it ends with an
\* assistant turn and its roles alternate. Every turn holds its own number,
\* or (style "placeholders") no assistant turn was ever answered.
Transcript(n, style) ==
    [i \in 1..n |->
        IF (n - i) % 2 = 0
        THEN ChatMessage("assistant",
                         IF style = "numbered" THEN Decimal(i) ELSE <<>>,
                         Undefined)
        ELSE ChatMessage("user", Decimal(i), Undefined)]

\* An open chat channel with a transcript of up to MaxPriorTurns turns and
\* some text typed
InitPrompt ==
    /\ variant = "current"
    /\ \E n \in 0..MaxPriorTurns, style \in {"numbered", "placeholders"} :
           messages = Transcript(n, style)
    /\ input \in ChatInputs
    /\ connected = TRUE
    /\ streaming = FALSE
    /\ chatReady = "OPEN"
    /\ chatClosing = FALSE
    /\ chatTx = <<>>
    /\ chatRx = <<>>
    /\ chatThrew = FALSE
    /\ chatEv = ChatEvent("other", FALSE)
    /\ runBase = TrailingContent(messages)
    /\ runFrags = <<>>
    /\ sends = 0
    /\ sentAfter = <<>>

-----------------------------------------------------------------------------
(* Specifications *)

NextChat ==
    \/ \E v \in ChatInputs : SetInput(v)
    \/ ChatWsOpen
    \/ ChatWsError
    \/ ChatWsClose
    \/ sendMessage
    \/ \E f \in ChatFrames : ChatWsMessage(f)

NextChatLegacy ==
    \/ \E v \in ChatInputs : SetInput(v)
    \/ ChatWsOpen
    \/ ChatWsError
    \/ ChatWsClose
    \/ sendMessage
    \/ \E f \in ChatFrames : LegacyWsMessage(f)

NextTerm ==
    \/ WsOpen
    \/ \E f \in TermFrames : WsMessage(f)
    \/ \E i \in pendingBlobs : BlobResolved(i)
    \/ WsError
    \/ WsClose

\* One terminal view receiving the documented frames and the other JSON texts
NextTermOdd ==
    \/ WsOpen
    \/ \E f \in TermFrames \cup OddTermFrames : WsMessage(f)
    \/ \E i \in pendingBlobs : BlobResolved(i)
    \/ WsError
    \/ WsClose

\* The chat view in its current revision
InitChatCurrent == InitChat("current") /\ IdleTerm /\ IdleApp /\ IdleLife

SpecChat == InitChatCurrent /\ [][NextChat]_vars

\* The chat view in its legacy revision
InitChatLegacy == InitChat("legacy") /\ IdleTerm /\ IdleApp /\ IdleLife

SpecChatLegacy == InitChatLegacy /\ [][NextChatLegacy]_vars

\* One terminal view on one channel
InitTermView == InitTerm /\ InitChat("current") /\ IdleApp /\ LiveLife

SpecTerm == InitTermView /\ [][NextTerm]_vars

SpecTermOdd == InitTermView /\ [][NextTermOdd]_vars

\* buildPromptWithContext, as sendMessage applies it to a transcript
NextPrompt == sendMessage

InitPromptInputs == InitPrompt /\ IdleTerm /\ IdleApp /\ IdleLife

SpecPrompt == InitPromptInputs /\ [][NextPrompt]_vars

\* The sockets of one terminal view and of the chat view, and the input the
\* emulator produces, without inbound frames
NextSockets ==
    \/ WsOpen
    \/ WsError
    \/ WsClose
    \/ \E d \in KeyData : TermData(d)
    \/ ChatWsOpen
    \/ ChatWsError
    \/ ChatWsClose

SpecSockets == InitTermView /\ [][NextSockets]_vars

\* The socket of one terminal view and the triggers of its geometry
NextGeom ==
    \/ WsOpen
    \/ WsError
    \/ WsClose
    \/ \E b \in Boxes : BoxChanged(b)
    \/ ObserverFired
    \/ WindowResized
    \/ \E v \in {"tabs", "grid"} : ViewModeChanged(v)
    \/ ModeTimerFired
    \/ \E a \in BOOLEAN : ActiveChanged(a)
    \/ ActiveTimerFired

SpecGeom == InitTermView /\ [][NextGeom]_vars

\* The session registry of App with the sessions API
NextApp ==
    \/ \E pg \in {"terminal", "chat"} : setPage(pg)
    \/ \E r \in requests : BackendAnswers(r)
    \/ \E r \in requests, ok \in BOOLEAN : getSessionsDone(r, ok)
    \/ \E tool \in ToolChoices : handleAddCli(tool)
    \/ \E r \in requests, ok \in BOOLEAN : handleAddCliDone(r, ok)
    \/ \E id \in Ids(sessions) : closeSession(id)
    \/ \E r \in requests, ok \in BOOLEAN : closeSessionDone(r, ok)
    \/ \E id \in Ids(sessions) : TabSelected(id)
    \/ \E id \in Ids(sessions) : toggleMaximize(id)
    \/ ExitMaximized
    \/ \E id \in hadPanel, st \in SessionStates :
          setSessionState(id, st.tool, st.status)
    \/ \E v \in {"tabs", "grid"} : setViewMode(v)
    \/ PanelTimerFired

InitRegistry == InitApp /\ IdleTerm /\ InitChat("current") /\ IdleLife

SpecApp == InitRegistry /\ [][NextApp]_vars

\* The session registry of App when every call of the sessions API succeeds
NextAppOk ==
    \/ \E pg \in {"terminal", "chat"} : setPage(pg)
    \/ \E r \in requests : BackendAnswers(r)
    \/ \E r \in requests : getSessionsDone(r, TRUE)
    \/ \E tool \in ToolChoices : handleAddCli(tool)
    \/ \E r \in requests : handleAddCliDone(r, TRUE)
    \/ \E id \in Ids(sessions) : closeSession(id)
    \/ \E r \in requests : closeSessionDone(r, TRUE)
    \/ \E id \in Ids(sessions) : TabSelected(id)
    \/ \E id \in Ids(sessions) : toggleMaximize(id)
    \/ ExitMaximized
    \/ \E id \in hadPanel, st \in SessionStates :
          setSessionState(id, st.tool, st.status)
    \/ \E v \in {"tabs", "grid"} : setViewMode(v)
    \/ PanelTimerFired

SpecAppOk == InitRegistry /\ [][NextAppOk]_vars

\* The life cycle of one TerminalView that App renders (isActive is the
\* literal true there): mount, unmount and re-mount, the session prop
\* changing, the runs of initTerminal with their animation frames, timers
\* and channels, the state notifications, and the triggers of the geometry
NextLife ==
    \/ Mount
    \/ Unmount
    \/ SessionChanged
    \/ \E i \in 1..MaxInits : ImportsLoaded(i)
    \/ \E i \in 1..MaxInits : RendererLoaded(i)
    \/ \E i \in 1..MaxInits : AnimationFrame(i)
    \/ \E i \in 1..MaxInits : FitTimeout(i)
    \/ \E i \in 1..MaxInits : ChannelOpened(i)
    \/ \E i \in 1..MaxInits : ChannelClosed(i)
    \/ \E i \in 1..MaxInits : StateNotified(i)
    \/ \E v \in {"tabs", "grid"} : ViewModeChanged(v)
    \/ ModeTimerFired
    \/ ActiveTimerFired
    \/ \E b \in Boxes : BoxChanged(b)
    \/ ObserverFired
    \/ WindowResized

InitLifeView == InitLife /\ IdleTerm /\ InitChat("current") /\ IdleApp

SpecLife == InitLifeView /\ [][NextLife]_vars

\* The chat view in its current revision, receiving the frames outside the
\* documented shapes
NextChatOdd ==
    \/ \E v \in ChatInputs : SetInput(v)
    \/ ChatWsOpen
    \/ ChatWsError
    \/ ChatWsClose
    \/ sendMessage
    \/ \E f \in OddChatFrames : ChatWsMessage(f)

SpecChatOdd == InitChatCurrent /\ [][NextChatOdd]_vars

\* The chat view in its current revision, receiving text frames and objects
\* with more than one recognised field
NextChatMulti ==
    \/ \E v \in ChatInputs : SetInput(v)
    \/ ChatWsOpen
    \/ ChatWsError
    \/ ChatWsClose
    \/ sendMessage
    \/ \E f \in MultiChatFrames \cup {StringFrame(<<"H", "i">>)} :
          ChatWsMessage(f)

SpecChatMulti == InitChatCurrent /\ [][NextChatMulti]_vars

Spec == SpecChat

-----------------------------------------------------------------------------
(* Terminal channel: the one-time reset and the order of the frames *)

\* positions of the calls of kind op in the emulator's log
OpsAt(op) == {k \in DOMAIN termLog : termLog[k].op = op}

\* positions in termRx of the frames of a kind
FramesAt(kind) == {i \in DOMAIN termRx : termRx[i].kind = kind}

\* a text frame that is a state notification, read from its wire text
IsControlText(f) ==
    /\ f.kind = "string"
    /\ \E e \in TermWireTable :
          /\ e.raw = f.data
          /\ e.root = "object"
          /\ e.type.ty = "string"
          /\ e.type.s \in {<<"r", "u", "n", "n", "i", "n", "g">>,
                           <<"e", "x", "i", "t", "e", "d">>}

\* no frame written as raw text has arrived
NoRawTextArrived ==
    \A i \in FramesAt("string") : IsControlText(termRx[i])

Min(S) == CHOOSE x \in S : \A y \in S : x <= y

\* C1: with only binary frames arrived (and no raw text), once a payload has
\* been written the surface has been reset exactly once, and the call that
\* follows the reset is the write of the payload of the first binary frame
\* that arrived; before any payload is written there is no reset.
C1_ResetOnceBeforeFirstBinary ==
    NoRawTextArrived =>
        IF OpsAt("write") = {}
        THEN OpsAt("reset") = {}
        ELSE LET first == Min(FramesAt("binary")) IN
             /\ Cardinality(OpsAt("reset")) = 1
             /\ \A k \in OpsAt("reset") :
                   /\ k + 1 \in DOMAIN termLog
                   /\ termLog[k + 1] =
                        TermOp("write", Utf8Decode(termRx[first].bytes), first)

\* the text of the writes made on the surface since its last reset
RECURSIVE WrittenSinceReset(_)
WrittenSinceReset(log) ==
    IF log = <<>> THEN <<>>
    ELSE LET last == log[Len(log)]
             before == SubSeq(log, 1, Len(log) - 1)
         IN  CASE last.op = "reset" -> <<>>
               [] last.op = "write" -> WrittenSinceReset(before) \o last.data
               [] OTHER -> WrittenSinceReset(before)

\* the payloads of the frames that carry terminal output, concatenated in
\* the order of arrival
RECURSIVE PayloadsInOrder(_)
PayloadsInOrder(rx) ==
    IF rx = <<>> THEN <<>>
    ELSE LET f == rx[Len(rx)]
             before == PayloadsInOrder(SubSeq(rx, 1, Len(rx) - 1))
         IN  IF f.kind = "binary" THEN before \o Utf8Decode(f.bytes)
             ELSE IF IsControlText(f) THEN before
             ELSE before \o f.data

\* C2: when no decoding is pending, the text written to the surface after
\* the reset is the concatenation of the payloads in the order the frames
\* arrived.
C2_WrittenInArrivalOrder ==
    (pendingBlobs = {} /\ dumpReceived) =>
        WrittenSinceReset(termLog) = PayloadsInOrder(termRx)

\* the status a state notification stands for, read from its wire text
WireStatus(f) ==
    LET e == CHOOSE e \in TermWireTable : e.raw = f.data IN
    CASE e.type.s = <<"r", "u", "n", "n", "i", "n", "g">> -> "running"
      [] e.type.s = <<"e", "x", "i", "t", "e", "d">>
            /\ e.exit_code.ty = "number" /\ e.exit_code.s = <<"0">> -> "stopped"
      [] e.type.s = <<"e", "x", "i", "t", "e", "d">>
            /\ (e.exit_code.ty = "undefined"
                \/ (e.exit_code.ty = "number" /\ e.exit_code.s # <<"0">>))
            -> "error"

\* the state notifications among the frames, in the order of arrival
ControlFrames(rx) == SelectSeq(rx, IsControlText)

\* C3: the statuses reported to onSessionState are, one per running/exited
\* frame and in order: running for a running frame, stopped for an exited
\* frame with exit_code 0, error for an exited frame with a nonzero or
\* absent exit_code.
C3_StatusMapping ==
    /\ Len(reported) = Len(ControlFrames(termRx))
    /\ \A k \in DOMAIN reported :
          reported[k].status = WireStatus(ControlFrames(termRx)[k])

\* C3 witness: a running frame, an exited frame with code 0 and an exited
\* frame without a code have been reported
C3_Witness ==
    /\ Len(reported) = 3
    /\ reported[1].status = "running"
    /\ reported[2].status = "stopped"
    /\ reported[3].status = "error"
    /\ termRx[3] = StringData(<<"{", "\"", "t", "y", "p", "e", "\"", ":", "\"", "e", "x", "i", "t", "e", "d", "\"", ",", "\"", "t", "o", "o", "l", "\"", ":", "\"", "g", "e", "m", "i", "n", "i", "\"", "}">>)

-----------------------------------------------------------------------------
(* Chat channel: the inbound reducer *)

\* The documented shape of a frame, read from its wire text: an object that
\* carries exactly one of the recognised fields
FrameShape(f) ==
    IF ~f.isString THEN "binary"
    ELSE LET e == CHOOSE e \in ChatWireTable : e.raw = f.data
             has == {k \in {"done", "error", "progress", "text"} :
                        CASE k = "done" -> e.done.ty = "true"
                          [] k = "error" -> e.error.ty = "string"
                          [] k = "progress" -> e.progress.ty = "string"
                          [] k = "text" -> e.text.ty = "string"}
         IN  IF e.root = "invalid" THEN "rawtext"
             ELSE IF e.root # "object" THEN "value"
             ELSE IF has = {} THEN "unrecognised"
             ELSE IF Cardinality(has) > 1 THEN "mixed"
             ELSE CHOOSE k \in has : TRUE

\* the string a frame carries in its one recognised field
FrameString(f) ==
    LET e == CHOOSE e \in ChatWireTable : e.raw = f.data IN
    CASE FrameShape(f) = "rawtext" -> f.data
      [] FrameShape(f) = "text" -> e.text.s
      [] FrameShape(f) = "error" -> e.error.s
      [] FrameShape(f) = "progress" -> e.progress.s
      [] OTHER -> <<>>

\* the step delivers one frame to ws.onmessage
FrameDelivered == chatRx' # chatRx

\* the frame delivered last
LastFrame == chatRx[Len(chatRx)]

RECURSIVE Flatten(_)
Flatten(ss) == IF ss = <<>> THEN <<>> ELSE Head(ss) \o Flatten(Tail(ss))

W_TextHi == <<"{", "\"", "t", "e", "x", "t", "\"", ":", "\"", "H", "i", "\"", "}">>
W_ProgressThinking ==
    <<"{", "\"", "p", "r", "o", "g", "r", "e", "s", "s", "\"", ":", "\"",
      "T", "h", "i", "n", "k", "i", "n", "g", ".", ".", ".", "\"", "}">>
W_Done == <<"{", "\"", "d", "o", "n", "e", "\"", ":", "t", "r", "u", "e", "}">>
W_ErrorTimeout ==
    <<"{", "\"", "e", "r", "r", "o", "r", "\"", ":", "\"", "t", "i", "m",
      "e", "o", "u", "t", "\"", "}">>
S_Hi == <<"H", "i">>
S_ErrorTimeout ==
    <<"E", "r", "r", "o", "r", ":", " ", "t", "i", "m", "e", "o", "u", "t">>

\* C4: the content of the trailing assistant turn is the content it had when
\* the run of {text} and raw-text frames began, followed by the fragments of
\* the run in arrival order; and in every state the raw-text frame Hi
\* changes the transcript exactly as the frame {"text":"Hi"} does.
C4_AppendsConcatenate ==
    /\ LastIsAssistant(messages) =>
          messages[Len(messages)].content = runBase \o Flatten(runFrags)
    /\ OnMessageMessages(messages, StringFrame(S_Hi))
          = OnMessageMessages(messages, StringFrame(W_TextHi))

\* C4 witness: after a send, a raw-text frame and a {text} frame have been
\* appended to the assistant turn
C4_Witness ==
    /\ Len(sentAfter) = 1 /\ sentAfter[1].after = 0
    /\ Len(chatRx) = 2
    /\ FrameShape(chatRx[1]) = "rawtext"
    /\ FrameShape(chatRx[2]) = "text"
    /\ runFrags = <<S_Hi, S_Hi>>
    /\ messages[2].content = S_Hi \o S_Hi

\* C5: after a {text} frame (whatever string it carries) or a {done} frame
\* has been processed, the last assistant turn has no progress label.
C5_TextOrDoneClearsProgress ==
    (/\ chatEv.h = "message"
     /\ FrameShape(LastFrame) \in {"text", "done"}
     /\ LastIsAssistant(messages))
    => messages[Len(messages)].progress = Undefined

\* C6: a {progress} frame leaves the number of turns, the role and content of
\* every turn, every turn but the last, and the streaming flag as they were;
\* when the transcript does not end with an assistant turn the chat state
\* is unchanged.
C6_ProgressOnlySetsLabel ==
    [][(FrameDelivered /\ FrameShape(chatRx'[Len(chatRx')]) = "progress")
       => /\ Len(messages') = Len(messages)
          /\ \A i \in DOMAIN messages :
                /\ messages'[i].role = messages[i].role
                /\ messages'[i].content = messages[i].content
                /\ i < Len(messages) => messages'[i] = messages[i]
          /\ streaming' = streaming
          /\ ~LastIsAssistant(messages)
                => UNCHANGED <<messages, input, connected, streaming,
                               chatReady, chatTx>>]_vars

\* C7: a sendMessage call made while the channel is not open, or with a text
\* box that is empty after trimming, changes neither the transcript nor the
\* streaming flag nor the text box, and sends nothing.
C7_RejectedSendIsNoOp ==
    [][(/\ chatEv'.h = "send"
        /\ chatReady # "OPEN" \/ Trim(input) = <<>>)
       => UNCHANGED <<messages, streaming, input, chatTx>>]_vars

\* C7 witness: a send was attempted on an open channel with only white space
\* in the text box, and was rejected
C7_Witness ==
    /\ chatEv = ChatEvent("send", FALSE)
    /\ chatReady = "OPEN"
    /\ input = <<" ">>
    /\ chatTx = <<>>

\* the lines of turns lo..hi of a transcript, each with its role label,
\* separated by blank lines
RECURSIVE LabelledTurns(_, _, _)
LabelledTurns(msgs, lo, hi) ==
    IF lo > hi THEN <<>>
    ELSE (IF msgs[lo].role = "user" THEN S_UserLabel ELSE S_AssistantLabel)
            \o msgs[lo].content
            \o (IF lo < hi THEN S_BlankLine ELSE <<>>)
            \o LabelledTurns(msgs, lo + 1, hi)

\* C8: the prompt sent for a message typed after k prior turns is the message
\* itself when k = 0, and else the header, the last min(k, 20) prior turns in
\* their order, each with its role label, and the labelled message last.
C8_ContextWindow ==
    chatEv = ChatEvent("send", TRUE) =>
        LET k == Len(messages) - 2
            prior == SubSeq(messages, 1, k)
            text == messages[k + 1].content
            sent == chatTx[Len(chatTx)]
        IN  IF k = 0 THEN sent = text
            ELSE sent = S_PreviousConversation
                          \o LabelledTurns(prior, IF k > 20 THEN k - 19 ELSE 1, k)
                          \o S_BlankLine \o S_UserLabel \o text

\* C8 witness: a message was sent after more than 20 prior turns
C8_Witness ==
    /\ chatEv = ChatEvent("send", TRUE)
    /\ Len(messages) - 2 > 20
    /\ messages[1].content # <<>>

\* C9: an {error: msg} frame appends "Error: " + msg to the trailing assistant
\* turn, after a blank line only when that turn has content, or adds an
\* assistant turn holding "Error: " + msg when the transcript does not end
\* with an assistant turn; the turn has no progress label afterwards, the
\* streaming flag is false and the channel is as it was. On an empty
\* placeholder with msg "timeout" the content is "Error: timeout".
C9_ErrorFrame ==
    [][(FrameDelivered /\ FrameShape(chatRx'[Len(chatRx')]) = "error")
       => LET msg == FrameString(chatRx'[Len(chatRx')])
              n == Len(messages)
          IN  /\ IF n > 0 /\ messages[n].role = "assistant"
                 THEN /\ Len(messages') = n
                      /\ \A i \in 1..(n - 1) : messages'[i] = messages[i]
                      /\ messages'[n].role = "assistant"
                      /\ messages'[n].content =
                            IF messages[n].content = <<>>
                            THEN S_ErrorPrefix \o msg
                            ELSE messages[n].content \o S_BlankLine
                                    \o S_ErrorPrefix \o msg
                      /\ (messages[n].content = <<>> /\ chatRx'[Len(chatRx')].data = W_ErrorTimeout)
                            => messages'[n].content = S_ErrorTimeout
                 ELSE /\ Len(messages') = n + 1
                      /\ \A i \in 1..n : messages'[i] = messages[i]
                      /\ messages'[n + 1].role = "assistant"
                      /\ messages'[n + 1].content = S_ErrorPrefix \o msg
              /\ messages'[Len(messages')].progress = Undefined
              /\ streaming' = FALSE
              /\ UNCHANGED <<chatReady, connected, chatTx>>]_vars

\* C9 witness: {"error":"timeout"} arrived on the empty placeholder of a send
\* whose progress label was set
C9_Witness ==
    /\ Len(sentAfter) = 1 /\ sentAfter[1].after = 0
    /\ Len(chatRx) = 2
    /\ chatRx[1] = StringFrame(W_ProgressThinking)
    /\ chatRx[2] = StringFrame(W_ErrorTimeout)
    /\ chatEv.h = "message"
    /\ messages[2].content = S_ErrorTimeout
    /\ ~streaming
    /\ chatReady = "OPEN"

\* C10: once a {done:true} frame has been processed the streaming flag is
\* false and the last assistant turn has no progress label; and after
\* "hello" is sent on an empty transcript and {progress}, {text:"Hi"} and
\* {done:true} arrive, "hello" is what was sent, the transcript is the user
\* turn "hello" and the assistant turn "Hi" without a progress label, and the
\* streaming flag is false.
C10_DoneScenario ==
    /\ (chatEv.h = "message" /\ FrameShape(LastFrame) = "done")
       => /\ ~streaming
          /\ LastIsAssistant(messages)
                => messages[Len(messages)].progress = Undefined
    /\ (/\ sentAfter = <<Sent(S_hello, 0)>>
        /\ chatRx = <<StringFrame(W_ProgressThinking), StringFrame(W_TextHi),
                      StringFrame(W_Done)>>)
       => /\ chatTx = <<S_hello>>
          /\ messages = <<ChatMessage("user", S_hello, Undefined),
                          ChatMessage("assistant", S_Hi, Undefined)>>
          /\ ~streaming

-----------------------------------------------------------------------------
(* Terminal channel: notices, outbound data and geometry *)

\* positions in the emulator's log of the notices of a failed or closed
\* channel
NoticesAt ==
    {k \in DOMAIN termLog :
        termLog[k].op = "writeln" /\ termLog[k].data \in {N_Closed, N_Error}}

\* C13: once the channel has failed or closed the surface holds a notice,
\* and no terminal output is written (and the surface is not reset) after a
\* notice.
C13_NoWriteAfterNotice ==
    /\ wsReady = "CLOSED" => NoticesAt # {}
    /\ \A k \in NoticesAt : \A j \in DOMAIN termLog :
          j > k => termLog[j].op \notin {"write", "reset"}

\* C14: a terminal socket or chat socket that is CLOSED stays CLOSED: no
\* step of the mounted views opens a connection again.
C14_NeverReopened ==
    [][/\ wsReady = "CLOSED" => wsReady' = "CLOSED"
       /\ chatReady = "CLOSED" => chatReady' = "CLOSED"]_vars

\* C14 witness: both channels have failed and closed, and the terminal
\* view went on producing input after that
C14_Witness ==
    /\ wsReady = "CLOSED" /\ ~wsClosing
    /\ chatReady = "CLOSED" /\ ~chatClosing
    /\ N_Error \in {termLog[k].data : k \in DOMAIN termLog}
    /\ produced # <<>>
    /\ ~produced[Len(produced)].open

\* the data of the outbound frames that carry emulator input, in order
SentData ==
    LET IsData(f) == f.type = "data"
        fs == SelectSeq(termTx, IsData)
    IN  [k \in DOMAIN fs |-> fs[k].data]

\* the data the emulator produced while the socket was open, in order
ProducedWhileOpen ==
    LET WasOpen(e) == e.open
        es == SelectSeq(produced, WasOpen)
    IN  [k \in DOMAIN es |-> es[k].data]

\* C15: the input frames sent are exactly the data the emulator produced
\* while the channel was open, each once, unchanged and in the order of
\* production; a datum produced while the channel was not open is in no
\* frame.
C15_InputForwardedWhileOpen ==
    SentData = ProducedWhileOpen

\* C15 witness: a datum was dropped before the channel opened, and two
\* different data were forwarded after it
C15_Witness ==
    /\ Len(produced) = 3
    /\ ~produced[1].open /\ produced[2].open /\ produced[3].open
    /\ produced[2].data # produced[3].data
    /\ Len(SentData) = 2

\* the step in which the terminal socket opens
Opened == wsReady = "CONNECTING" /\ wsReady' = "OPEN"

\* C16: the step in which the channel opens sends one resize frame with the
\* geometry fitted to the current box, and the first frame sent on a channel
\* is a resize frame.
C16_ResizeOnOpen ==
    [][/\ Opened =>
             /\ termSize'[wsRef] = box
             /\ termTx' = Append(termTx, ResizeFrame(box[1] - 1, box[2]))
       /\ termTx' # <<>> => termTx'[1].type = "resize"]_vars

\* C16 witness: input was produced before and after the opening, and the
\* first frame sent is the resize frame
C16_Witness ==
    /\ Len(produced) = 2
    /\ ~produced[1].open /\ produced[2].open
    /\ Len(termTx) = 2
    /\ termTx[1].type = "resize"
    /\ termTx[2].type = "data"

\* the resize frames sent, in order
ResizesSent ==
    LET IsResize(f) == f.type = "resize" IN SelectSeq(termTx, IsResize)

\* C17: while the channel is open and no debounce timer is pending, the
\* last resize frame sent carries the geometry now fitted to the surface.
C17_LastResizeIsFitted ==
    (wsReady = "OPEN" /\ ~activeTimer /\ modeTimer = {}) =>
        /\ ResizesSent # <<>>
        /\ ResizesSent[Len(ResizesSent)]
              = ResizeFrame(termSize[termRef][1] - 1, termSize[termRef][2])

\* C28: when the view became the active one with its channel open, the
\* firing of the activation timer recomputes the geometry and emits a
\* resize frame carrying the recomputed values
C28_ActivationSendsResize ==
    [][(/\ activeTimer /\ ~activeTimer'
        /\ isActive /\ isActive'
        /\ wsReady = "OPEN")
       => /\ termSize'[termRef] = box
          /\ termTx' = Append(termTx,
                             ResizeFrame(termSize'[termRef][1] - 1,
                                         termSize'[termRef][2]))]_vars

\* C18: a step that leaves the channel not open sends no frame; the
\* ResizeObserver callback and the layout timer still fit the surface to
\* its box then; and the opening sends one frame only.
C18_NoResizeUnlessOpen ==
    [][/\ wsReady' # "OPEN" => termTx' = termTx
       /\ (wsReady # "OPEN" /\ observerPending /\ ~observerPending')
             => termSize'[termRef] = box
       /\ (wsReady # "OPEN" /\ modeTimer # {} /\ modeTimer' = {})
             => termSize'[termRef] = box
       /\ Opened => Len(termTx') = Len(termTx) + 1]_vars

\* C18 witness: after the channel closed the box changed and the
\* ResizeObserver callback fitted the surface to it, and the one frame sent
\* is the resize frame of the opening
C18_Witness ==
    /\ wsReady = "CLOSED"
    /\ Len(termTx) = 1
    /\ termTx[1].type = "resize"
    /\ box # <<termTx[1].cols + 1, termTx[1].rows>>
    /\ termSize[termRef] = box
    /\ ~observerPending
    /\ isActive /\ ~activeTimer

\* the runs of initTerminal whose channel opens in the step
OpenedRuns ==
    {i \in 1..MaxInits :
        inits[i].channel = "CONNECTING" /\ inits'[i].channel = "OPEN"}

-----------------------------------------------------------------------------
(* Session registry: close and status *)

\* the continuation of a successful delete of session r.sid runs in this step
ClosedNow(r) == closeSessionDone(r, TRUE)

\* C11: when the delete of the active or the maximized session succeeds, the
\* session leaves the registry, the maximized selection no longer names it,
\* and the active selection is the first remaining session, or empty when no
\* session remains
C11_CloseSelectsFirstRemaining ==
    [][\A r \in requests :
          (ClosedNow(r) /\ (r.sid = activeTabId \/ r.sid = maximizedSession))
          => /\ r.sid \notin Ids(sessions')
             /\ maximizedSession' # r.sid
             /\ activeTabId' = FirstId(sessions')]_vars

\* C20: the status of a session that was created here changes only in a
\* step that applies a state notification of its channel to it; no API
\* continuation (list load, create, close) changes it
C20_StatusOnlyByStateFrame ==
    [][\A i \in DOMAIN sessions, j \in DOMAIN sessions' :
          (/\ sessions[i].id \in createdHere
           /\ sessions'[j].id = sessions[i].id
           /\ sessions'[j].status # sessions[i].status)
          => /\ requests' = requests
             /\ \E st \in SessionStates :
                   sessions' = WithState(sessions, sessions[i].id,
                                         st.tool, st.status)]_vars

-----------------------------------------------------------------------------
(* TerminalView: teardown *)

\* C12: once the teardown of a view has run, whatever the point of the
\* initialisation it ran at, no channel made for the view is connecting or
\* open, no surface made for it is left undisposed, no geometry
\* recomputation is pending (after an unmount, the debounce timer
\* included), and no fit or write has run on a disposed surface
C12_TeardownReleasesEverything ==
    /\ \A i \in 1..MaxInits :
          inits[i].torn =>
             /\ inits[i].channel \notin {"CONNECTING", "OPEN"}
             /\ inits[i].surface # "open"
             /\ ~inits[i].raf
             /\ ~inits[i].fitTimeout
    /\ ~mounted => (modeTimer = {} /\ ~activeTimer /\ ~observerPending)
    /\ misuse = {}

\* C27: while a session view is mounted, at most one channel made for it is
\* connecting or open and at most one emulator surface made for it is
\* undisposed, whatever the interleaving of mount, teardown, re-mount and
\* the asynchronous initialisation
C27_OneChannelOneSurface ==
    mounted =>
       /\ Cardinality({i \in 1..MaxInits :
                          inits[i].channel \in {"CONNECTING", "OPEN"}}) <= 1
       /\ Cardinality({i \in 1..MaxInits : inits[i].surface = "open"}) <= 1

\* C29: a change of the layout mode sends no frame in its own step and
\* leaves exactly one timer pending, the one it has set; a teardown leaves
\* none pending; so at most one timer of the layout effect is pending at
\* any time, and the one that can fire is the one set last
C29_LayoutChangeDebounced ==
    [][/\ viewMode' # viewMode
             => /\ termTx' = termTx
                /\ termSize' = termSize
                /\ modeTimer' = {viewMode'}
       /\ (mounted /\ ~mounted') => modeTimer' = {}
       /\ Cardinality(modeTimer') <= 1
       /\ modeTimer' \subseteq {viewMode'}]_vars

\* C29 witness: the mounted view was switched to the grid and the timer of
\* that change is pending; its channel is open and the resize frame of the
\* opening is the only frame sent
C29_Witness ==
    /\ mounted
    /\ viewMode = "grid"
    /\ modeTimer = {"grid"}
    /\ wsRef # Null
    /\ inits[wsRef].channel = "OPEN"
    /\ Len(termTx) = 1

-----------------------------------------------------------------------------
(* Chat channel: committed turns, odd frames and sends *)

\* a {done} frame was delivered after the last accepted send, whose
\* placeholder is the last turn since then
DoneSinceLastSend ==
    /\ sends > 0
    /\ \E k \in (sentAfter[sends].after + 1)..Len(chatRx) :
          ChatBranch(chatRx[k]) = "done"

\* C21: an inbound frame leaves every turn but the last as it is, and once
\* {done} has been processed for the last turn no inbound frame changes
\* the content of that turn
C21_CommittedTurnsImmutable ==
    [][chatRx' # chatRx =>
          /\ Len(messages') >= Len(messages)
          /\ \A k \in 1..(Len(messages) - 1) : messages'[k] = messages[k]
          /\ (Len(messages) > 0 /\ DoneSinceLastSend)
                => messages'[Len(messages)].content
                      = messages[Len(messages)].content]_vars

\* the frame is text that JSON.parse accepts and that has none of the
\* shapes done, error, progress, text
Unrecognised(f) ==
    /\ f.isString
    /\ LET j == JSONparse(f.data) IN
          /\ j.root # "invalid"
          /\ j.done.ty # "true"
          /\ j.error.ty # "string"
          /\ j.progress.ty # "string"
          /\ j.text.ty # "string"

\* C24: an inbound chat frame that parses as JSON and has none of the
\* shapes done, error, progress, text (an object, or null or a number)
\* leaves the transcript and the streaming flag unchanged, and the handler
\* raises no error
C24_UnrecognisedJsonIgnored ==
    [][(chatRx' # chatRx /\ Unrecognised(chatRx'[Len(chatRx')]))
          => /\ messages' = messages
             /\ streaming' = streaming
             /\ chatThrew' = chatThrew]_vars

\* The number of user turns of a transcript
UserTurns(msgs) == Cardinality({k \in 1..Len(msgs) : msgs[k].role = "user"})

\* C26: every accepted chat send appends exactly one user turn holding the
\* trimmed text, immediately followed by one empty assistant turn, sets the
\* streaming flag, clears the text box and emits exactly one text frame; so
\* in every reachable state the number of outbound frames equals the number
\* of user turns.
C26_AcceptedSendAppendsOnePair ==
    /\ [](Len(chatTx) = UserTurns(messages))
    /\ [][(/\ chatEv'.h = "send"
            /\ chatReady = "OPEN"
            /\ Trim(input) # <<>>)
           => /\ messages' = messages \o
                     <<ChatMessage("user", Trim(input), Undefined),
                       ChatMessage("assistant", <<>>, Undefined)>>
              /\ streaming'
              /\ input' = <<>>
              /\ Len(chatTx') = Len(chatTx) + 1
              /\ SubSeq(chatTx', 1, Len(chatTx)) = chatTx]_vars

\* C26 witness: " hi\n" was sent on the open channel; the transcript holds
\* the user turn "hi" and the empty assistant turn, one frame went out
C26_Witness ==
    /\ chatEv = ChatEvent("send", TRUE)
    /\ Len(chatTx) = 1
    /\ streaming
    /\ input = <<>>
    /\ messages = <<ChatMessage("user", <<"h", "i">>, Undefined),
                    ChatMessage("assistant", <<>>, Undefined)>>

-----------------------------------------------------------------------------
(* Terminal channel: classification of text frames *)

\* A text that is no valid JSON, or valid JSON (null and the other non-objects
\* included) whose type is neither "running" nor "exited"
NotStateShape(s) ==
    LET msg == ParseSessionState(s) IN
    \/ msg.root = "invalid"
    \/ msg.type \notin {JsString(<<"r", "u", "n", "n", "i", "n", "g">>),
                        JsString(<<"e", "x", "i", "t", "e", "d">>)}

\* C25: classifying a terminal frame never closes the channel, and every text
\* frame that is not valid JSON, or is valid JSON without the running/exited
\* shape, is written to the emulator as raw text; what was written for the
\* earlier frames stays, and the frames after it are handled the same way.
C25_OddTextWrittenRaw ==
    [][termRx' # termRx =>
          LET k == Len(termRx')
              f == termRx'[k]
          IN  /\ wsReady' = wsReady
              /\ wsClosing' = wsClosing
              /\ Len(termLog') >= Len(termLog)
              /\ SubSeq(termLog', 1, Len(termLog)) = termLog
              /\ (f.kind = "string" /\ NotStateShape(f.data))
                    => /\ Len(termLog') > Len(termLog)
                       /\ termLog'[Len(termLog')] = TermOp("write", f.data, k)
                       /\ reported' = reported]_vars

\* The text null, then the text 42, both written as they came
C25_Witness ==
    /\ Len(termRx) = 2
    /\ wsReady = "OPEN"
    /\ termRx[1] = StringData(<<"n", "u", "l", "l">>)
    /\ termRx[2] = StringData(<<"4", "2">>)
    /\ Len(termLog) >= 2
    /\ termLog[Len(termLog) - 1] = TermOp("write", <<"n", "u", "l", "l">>, 1)
    /\ termLog[Len(termLog)] = TermOp("write", <<"4", "2">>, 2)

\* C30: a running/exited frame on the terminal channel is reported to the
\* registry as one state-transition event and leaves the emulator as it is:
\* nothing is written, the surface is not reset and the dump-received flag
\* keeps its value, so the one-time reset is left for the first payload
C30_ControlFrameLeavesEmulator ==
    [][(termRx' # termRx /\ IsControlText(termRx'[Len(termRx')]))
       => /\ Len(reported') = Len(reported) + 1
          /\ SubSeq(reported', 1, Len(reported)) = reported
          /\ termLog' = termLog
          /\ dumpReceived' = dumpReceived
          /\ pendingBlobs' = pendingBlobs]_vars

\* C30 witness: an exited frame arrived first and was reported; the binary
\* frame after it was written after the one reset
C30_Witness ==
    /\ Len(termRx) = 2
    /\ termRx[1].kind = "string"
    /\ ParseSessionState(termRx[1].data).type
          = JsString(<<"e", "x", "i", "t", "e", "d">>)
    /\ termRx[2] = BinaryData(<<72, 73>>)
    /\ Len(reported) = 1
    /\ Len(termLog) >= 2
    /\ termLog[Len(termLog) - 1] = TermOp("reset", <<>>, 2)
    /\ termLog[Len(termLog)] = TermOp("write", <<"H", "I">>, 2)

\* C31: a raw-text frame is written to the emulator as terminal output,
\* after the one-time reset when no dump had been received, and it marks
\* the dump received; over the lifetime of the channel the surface is reset
\* at most once, whatever mix of binary and text frames arrives
C31_RawTextResetsAtMostOnce ==
    /\ [](Cardinality(OpsAt("reset")) <= 1)
    /\ [][(/\ termRx' # termRx
            /\ termRx'[Len(termRx')].kind = "string"
            /\ ~IsControlText(termRx'[Len(termRx')]))
           => LET k == Len(termRx')
                  w == TermOp("write", termRx'[k].data, k)
              IN  /\ dumpReceived'
                  /\ termLog' = IF dumpReceived
                                 THEN Append(termLog, w)
                                 ELSE termLog \o <<TermOp("reset", <<>>, k), w>>]_vars

\* C31 witness: the text ok arrived first and caused the reset; the binary
\* frame and the text after it were written without another reset
C31_Witness ==
    /\ Len(termRx) = 3
    /\ termRx[1] = StringData(<<"o", "k">>)
    /\ termRx[2].kind = "binary"
    /\ termRx[3] = StringData(<<"o", "k">>)
    /\ pendingBlobs = {}
    /\ Cardinality(OpsAt("reset")) = 1
    /\ Cardinality(OpsAt("write")) = 3
    /\ \A k \in OpsAt("reset") : termLog[k].src = 1

-----------------------------------------------------------------------------
(* Session registry: state notifications and failed calls *)

\* C22: setSessionState(id, tool, status) changes the tool and the status
\* of the sessions whose id is `id` and nothing else: every other field of
\* them, every other session, the order of the list, the selections, the
\* page and the view mode stay; for an id that is not in the registry the
\* registry is unchanged
C22_StateChangesToolAndStatusOnly ==
    [][\A id \in hadPanel, st \in SessionStates :
          setSessionState(id, st.tool, st.status) =>
             /\ DOMAIN sessions' = DOMAIN sessions
             /\ \A k \in DOMAIN sessions :
                   IF sessions[k].id = id
                   THEN sessions'[k] = [id |-> sessions[k].id,
                                        name |-> sessions[k].name,
                                        command |-> sessions[k].command,
                                        tool |-> st.tool,
                                        status |-> st.status]
                   ELSE sessions'[k] = sessions[k]
             /\ id \notin Ids(sessions) => sessions' = sessions
             /\ UNCHANGED <<activeTabId, maximizedSession, viewMode, page>>]_vars

\* a session loaded from the list as "claude" received a state notification:
\* it keeps its name and carries the tool and status of the notification,
\* next to a session the notification was not for
C22_Witness ==
    /\ Len(sessions) = 2
    /\ sessions[1] = [id |-> 1, name |-> "Claude", command |-> "claude",
                      tool |-> "generic", status |-> "error"]
    /\ sessions[2].status = "stopped"

\* the continuation of the failed API call r runs in this step
FailedNow(r) ==
    \/ getSessionsDone(r, FALSE)
    \/ handleAddCliDone(r, FALSE)
    \/ closeSessionDone(r, FALSE)

\* C23: the continuation of a failed API call (delete, create or list
\* load) leaves the session list and both selections as they were, and the
\* error does not leave the handler: the handler completes
C23_FailedCallLeavesRegistry ==
    [][\A r \in requests :
          FailedNow(r)
          => /\ UNCHANGED <<sessions, activeTabId, maximizedSession>>
             /\ r \notin requests'
             /\ ~unhandled']_vars

\* the user maximized the active session and closed it, the backend
\* removed the session, and the delete has failed all the same: no call
\* is in flight, the session is still listed, active and maximized, and no
\* error has left a handler
C23_Witness ==
    /\ requests = {}
    /\ events = 2
    /\ page = "terminal"
    /\ activeTabId # Null
    /\ maximizedSession = activeTabId
    /\ activeTabId \in Ids(sessions)
    /\ activeTabId \notin {backend[k].session_id : k \in DOMAIN backend}
    /\ ~unhandled

\* ToolType, as the values of the `tool` field of a state notification
ToolKinds ==
    {JsString(<<"g", "e", "n", "e", "r", "i", "c">>),
     JsString(<<"c", "l", "a", "u", "d", "e">>),
     JsString(<<"g", "e", "m", "i", "n", "i">>),
     JsString(<<"c", "o", "d", "e", "x">>)}

\* C33: every state-transition event that a terminal channel hands to the
\* registry, which stores its tool and status in the session's entry as
\* they are, carries a status out of running, idle, stopped, error and a
\* tool out of generic, claude, gemini, codex, also when the frame has no
\* tool field or another value in it
C33_RegistryToolAndStatusTyped ==
    \A k \in DOMAIN reported :
        /\ reported[k].status \in {"running", "idle", "stopped", "error"}
        /\ reported[k].tool \in ToolKinds

\* C34: the maximize toggle of a session clears the maximized session when
\* it is that session and otherwise makes that session the maximized one;
\* the session list and the active selection are unchanged; and toggling
\* the same session once more restores whether that session is maximized
\* (the whole value when it was that session or none)
C34_ToggleMaximize ==
    [][\A id \in Ids(sessions) :
          toggleMaximize(id) =>
             /\ maximizedSession = id => maximizedSession' = Null
             /\ maximizedSession # id => maximizedSession' = id
             /\ UNCHANGED <<sessions, activeTabId>>
             /\ (toggled(maximizedSession', id) = id) <=> (maximizedSession = id)
             /\ maximizedSession \in {Null, id}
                   => toggled(maximizedSession', id) = maximizedSession]_vars

\* C34 witness: in the grid, session 2 was maximized while session 1 is the
\* active selection
C34_Witness ==
    /\ Len(sessions) = 2
    /\ viewMode = "grid"
    /\ activeTabId = 1
    /\ maximizedSession = 2

-----------------------------------------------------------------------------
(* Session registry: in-flight calls *)

\* the ids of the sessions the backend holds
BackendIds == {backend[k].session_id : k \in DOMAIN backend}

\* the step is the return of a successful delete of the session id
DeletedNow(id) ==
    \E r \in requests : r.sid = id /\ closeSessionDone(r, TRUE)

\* C32: a session that a successful create has added to the registry stays
\* there until a successful delete of its id, and once no call is in flight
\* the registry holds the sessions of the backend, whatever the order in
\* which the create, delete and list-load responses arrive
C32_CreatedStaysUntilDeleted ==
    /\ [](requests = {} => Ids(sessions) = BackendIds)
    /\ [][\A id \in createdHere \cap Ids(sessions) :
             id \in Ids(sessions') \/ DeletedNow(id)]_vars

\* C36: the active selection is empty or the id of a session of the
\* registry, whatever the order of the list loads, the creates and the
\* closes that are pending at the same time
C36_ActiveSelectionInRegistry ==
    activeTabId = Null \/ activeTabId \in Ids(sessions)

-----------------------------------------------------------------------------
(* Terminal view re-used for another session *)

\* C37: a state notification received on the channel that was opened for a
\* session reaches the registry entry of that session, also when the view
\* has been given another session while the channel or the initialisation
\* that made it is still alive
C37_StateReachesOwnSession ==
    stateCall # <<>> => stateCall[1].entry = stateCall[1].channel

-----------------------------------------------------------------------------
(* Chat channel: shape of the transcript, closing, precedence of the fields *)

\* C38: the transcript never ends with a user turn, every user turn is
\* immediately followed by an assistant turn, and no two assistant turns
\* are adjacent, whatever the order of sends and inbound frames
C38_TranscriptAlternates ==
    /\ messages # <<>> => messages[Len(messages)].role = "assistant"
    /\ \A k \in DOMAIN messages :
          messages[k].role = "user"
             => k < Len(messages) /\ messages[k + 1].role = "assistant"
    /\ \A k \in 1..(Len(messages) - 1) :
          ~(messages[k].role = "assistant" /\ messages[k + 1].role = "assistant")

\* C38 witness: a frame made an assistant turn before anything was sent;
\* then a text was sent, and a frame filled the placeholder of the send
C38_Witness ==
    /\ Len(messages) = 3
    /\ messages[1].role = "assistant"
    /\ messages[2].role = "user"
    /\ messages[3].role = "assistant"
    /\ messages[3].content # <<>>

\* the close event of the chat channel has been dispatched
ChatClosed == chatReady = "CLOSED" /\ ~chatClosing

\* C39: the close event of the chat channel clears the connected flag and
\* the streaming flag, and both stay false from then on, sends being
\* rejected on the channel that is never opened again; the error event
\* alone clears the connected flag and leaves the streaming flag
C39_CloseClearsStreaming ==
    /\ [](ChatClosed => ~connected /\ ~streaming)
    /\ [][/\ (ChatClosed => ChatClosed')
           /\ ((~ChatClosed /\ ChatClosed') => (~connected' /\ ~streaming'))
           /\ ((~chatClosing /\ chatClosing')
                 => (~connected' /\ streaming' = streaming))]_vars

\* C39 witness: a text was sent and no frame came back; the channel failed
\* and closed while the reply was awaited, and the flags are cleared
C39_Witness ==
    /\ ChatClosed
    /\ sends = 1
    /\ chatRx = <<>>
    /\ ~streaming
    /\ ~connected
    /\ messages[Len(messages)].content = <<>>

\* C40: an inbound object that carries several recognised fields is
\* handled by one branch only, the first of done, error, progress, text
\* that it carries; the fields after it have no effect (a frame with
\* progress and text sets the label and appends nothing)
C40_FieldPrecedence ==
    [][(chatRx' # chatRx /\ chatRx'[Len(chatRx')] \in MultiChatFrames)
       => LET j == JSONparse(chatRx'[Len(chatRx')].data)
              has == RecognisedFields(j)
          IN  /\ ~chatThrew'
              /\ "done" \in has
                    => /\ messages' = doneBranch(messages)
                       /\ ~streaming'
              /\ ("done" \notin has /\ "error" \in has)
                    => /\ messages' = errorBranch(messages, j.error.s)
                       /\ ~streaming'
              /\ (has \cap {"done", "error"} = {} /\ "progress" \in has)
                    => /\ messages' = progressBranch(messages, j.progress.s)
                       /\ TrailingContent(messages')
                             = TrailingContent(messages)
                       /\ Len(messages') = Len(messages)
                       /\ streaming' = streaming]_vars

\* C40 witness: the reply to a send began with the object carrying progress
\* "P" and text "Hi": the label is set and the turn is still empty
C40_Witness ==
    /\ sends = 1
    /\ Len(chatRx) = 1
    /\ chatRx[1].data = <<"{", "\"", "p", "r", "o", "g", "r", "e", "s", "s", "\"", ":", "\"", "P", "\"", ",", "\"", "t", "e", "x", "t", "\"", ":", "\"", "H", "i", "\"", "}">>
    /\ Len(messages) = 2
    /\ messages[2].progress = Some(<<"P">>)
    /\ messages[2].content = <<>>
    /\ streaming

=============================================================================
